---- MODULE Spec2Model ----
(***************************************************************************)
(* A model of bananazon/pstree: the run command (cmd/root.go), the process *)
(* ordering (pkg/pstree/pstree.go), the tree pipeline (build, mark, prune) *)
(* and compact-mode grouping (InitCompactMode).                            *)
(*                                                                         *)
(* Indices: Go slices are 0-based, the sequences here are 1-based, so the  *)
(* model's index i is Go's index i-1.  "No index" is -1 as in the source.  *)
(***************************************************************************)
EXTENDS Integers, Sequences, FiniteSets, TLC

\* ------------------------------------------------------------------ bounds
\* The largest number of process records in a snapshot.
MaxProcs == 3

\* The largest value of a numeric sort key (age, cpu, rss, threads).
MaxKey == 2

\* The largest number of user names given with --user.
MaxUsers == 3

\* ------------------------------------------------------- program constants
\* Child: -1, Parent: -1, Sister: -1: no node.
None == -1

\* flagLevel = 999 when --level is not given.
DefaultLevel == 999

VARIABLES
    pc,              \* the position of pstreeRunCmd
    err,             \* the error pstreeRunCmd returns ("" = nil)
    changedLevel,    \* cmd.Flags().Changed("level")
    flagOrderBy,     \* --order-by
    flagColorAttr,   \* --color-attr
    flagContains,    \* --contains
    flagCompactNot,  \* --compact-not
    flagLevel,       \* --level
    flagAge,         \* --age
    flagCpu,         \* --cpu
    flagMemory,      \* --mem
    flagThreads,     \* --threads
    flagShowOwner,   \* --show-owner
    flagShowPIDs,    \* --show-pids
    flagShowUserTransitions,  \* --user-transitions
    changedUser,     \* cmd.Flags().Changed("user")
    flagUsername,    \* --user: the requested owner names
    flagExcludeRoot, \* --exclude-root
    flagColor,       \* --color
    flagRainbow,     \* --rainbow
    flagColorScheme, \* --color-scheme
    flagIBM850,      \* --ibm-850
    flagUTF8,        \* --utf-8
    flagVT100,       \* --vt-100
    flagShowUIDTransitions,   \* --uid-transitions
    flagShowPGIDs,   \* --show-pgids
    flagShowPGLs,    \* --show-pgls
    unsorted,        \* GetProcesses: the gopsutil processes process.Processes() returned
    fetchIdx,        \* GenerateProcess: the position in the fetches of the current process
    sending,         \* GenerateProcess: the fetches whose goroutine was started and has not sent
    running,         \* GenerateProcess: the fetches whose function was called and has not returned
    completed,       \* GenerateProcess: the fetches whose local variable is assigned
    processes,       \* []pstree.Process: the snapshot
    sorted,          \* []pstree.Process: the ordered snapshot under construction
    displayOptions,  \* pstree.DisplayOptions handed to the tree
    predicate,       \* the indices of processes the composite filter predicate holds for
    Nodes,           \* processTree.Nodes
    ProcessGroups,   \* processTree.ProcessGroups, keyed <<parentPID, signature, owner>>
    skipProcesses,   \* skipProcesses: the indices to skip when printing
    lines            \* the lines PrintTree has written

showVars == <<flagAge, flagCpu, flagMemory, flagThreads, flagShowOwner, flagShowPIDs>>

\* The flags no step of the run assigns.
styleVars == <<changedUser, flagExcludeRoot, flagRainbow, flagColorScheme, flagIBM850,
               flagUTF8, flagVT100, flagShowUIDTransitions, flagShowPGIDs, flagShowPGLs>>

flagVars == <<changedLevel, flagOrderBy, flagColorAttr, flagContains, flagCompactNot,
              flagLevel, showVars, flagShowUserTransitions, flagColor, flagUsername,
              styleVars>>

treeVars == <<Nodes, ProcessGroups, skipProcesses>>

fetchVars == <<fetchIdx, sending, running, completed>>

vars == <<pc, err, flagVars, unsorted, fetchVars, lines, processes, sorted, displayOptions, predicate,
          treeVars>>

\* ----------------------------------------------------------------- helpers
Iota(n) == [i \in 1..n |-> i]

MinOf(S) == CHOOSE x \in S : \A y \in S : x <= y

MaxOf(a, b) == IF a >= b THEN a ELSE b

Range(s) == {s[i] : i \in 1..Len(s)}

\* The permutations of a sequence, as sequences.
PermsOf(s) ==
    LET n == Len(s)
        bij == {f \in [1..n -> 1..n] : \A i, j \in 1..n : f[i] = f[j] => i = j}
    IN  {[i \in 1..n |-> s[f[i]]] : f \in bij}

\* The strings of the model in Go's string order (byte-wise): "" sorts first.
StringOrder == <<"", "?", "alice", "bob", "root">>

StringRank(s) == CHOOSE i \in 1..Len(StringOrder) : StringOrder[i] = s

\* ------------------------------------------------------- the Process record
\* process.MemoryInfoStat: a nil pointer is NilMem.
NilMem == [nil |-> TRUE, RSS |-> 0]

MemInfo(rss) == [nil |-> FALSE, RSS |-> rss]

\* The Process literal GenerateProcess returns (the fields the pipeline reads).
Process(pid, ppid, username, command, age, cpu, mem, threads) ==
    [PID |-> pid, PPID |-> ppid, Username |-> username, Command |-> command,
     Args |-> <<>>, Age |-> age, CPUPercent |-> cpu, MemoryInfo |-> mem,
     NumThreads |-> threads, Parent |-> None, Child |-> None, Sister |-> None]


\* A node of processTree.Nodes: the Process plus its signature and its mark.
Signature(p) == <<p.Command>> \o p.Args

\* ------------------------------------------------------------- TreeBuilder
\* The index of the record with the given PID, or None.
GetPidIndex(procs, pid) ==
    LET hits == {i \in 1..Len(procs) : procs[i].PID = pid}
    IN  IF hits = {} THEN None ELSE MinOf(hits)

\* The parent of record i: the record its ppid names; a record whose ppid is
\* absent from the snapshot, or is its own pid, is a root.
ParentIndex(procs, i) ==
    LET p == GetPidIndex(procs, procs[i].PPID)
    IN  IF p = i THEN None ELSE p

\* The children of record p in input record order.
ChildList(procs, p) ==
    SelectSeq(Iota(Len(procs)), LAMBDA i : ParentIndex(procs, i) = p)

FirstOf(s) == IF s = <<>> THEN None ELSE s[1]

\* The element that follows x in s, or None.
NextIn(s, x) ==
    LET at == {k \in 1..Len(s) : s[k] = x}
    IN  IF at = {} THEN None
        ELSE IF MinOf(at) = Len(s) THEN None ELSE s[MinOf(at) + 1]

NewProcessTree(procs) ==
    [i \in 1..Len(procs) |->
        LET parent == ParentIndex(procs, i)
        IN  [Signature |-> Signature(procs[i]), Marked |-> FALSE] @@
            [procs[i] EXCEPT
                !.Parent = parent,
                !.Child  = FirstOf(ChildList(procs, i)),
                !.Sister = IF parent = None THEN None
                           ELSE NextIn(ChildList(procs, parent), i)]]

\* The roots of the node table in index order (the children of the synthetic
\* forest root).
RootList(nodes) ==
    SelectSeq(Iota(Len(nodes)), LAMBDA i : nodes[i].Parent = None)

\* The sibling chain that starts at node i, following Sister.
RECURSIVE SisterChain(_, _)
SisterChain(nodes, i) ==
    IF i = None THEN <<>> ELSE <<i>> \o SisterChain(nodes, nodes[i].Sister)

\* The children of node p (None: the forest root) in sibling order.
SiblingList(nodes, p) ==
    IF p = None THEN RootList(nodes) ELSE SisterChain(nodes, nodes[p].Child)

\* ------------------------------------------------------------------ Marker
\* A walk that marks only the nodes the predicate holds for (no propagation to
\* the ancestors).
RECURSIVE MarkWalkOwnOnly(_, _, _)
MarkWalkOwnOnly(nodes, pred, i) ==
    IF i = None THEN {}
    ELSE (IF i \in pred THEN {i} ELSE {})
         \cup MarkWalkOwnOnly(nodes, pred, nodes[i].Child)
         \cup MarkWalkOwnOnly(nodes, pred, nodes[i].Sister)

\* The post-order walk: the marked nodes among node i, its later sisters and
\* all their descendants.  A node is marked when the predicate holds for it or
\* some descendant is marked.
RECURSIVE MarkWalk(_, _, _)
MarkWalk(nodes, pred, i) ==
    IF i = None THEN {}
    ELSE LET below == MarkWalk(nodes, pred, nodes[i].Child)
             me    == IF i \in pred \/ below # {} THEN {i} ELSE {}
         IN  me \cup below \cup MarkWalk(nodes, pred, nodes[i].Sister)

MarkProcesses(nodes, pred) ==
    LET marked == UNION {MarkWalk(nodes, pred, r) : r \in Range(RootList(nodes))}
    IN  [i \in 1..Len(nodes) |-> [nodes[i] EXCEPT !.Marked = (i \in marked)]]

\* ------------------------------------------------------------------ Pruner
\* The old indices of the surviving nodes, ascending.
Kept(nodes) == SelectSeq(Iota(Len(nodes)), LAMBDA i : nodes[i].Marked)

\* The dense index a surviving node gets.
NewIndex(nodes, i) ==
    IF i = None THEN None
    ELSE Cardinality({j \in 1..i : nodes[j].Marked})

RECURSIVE NearestMarkedAncestor(_, _)
NearestMarkedAncestor(nodes, i) ==
    LET p == nodes[i].Parent
    IN  IF p = None THEN None
        ELSE IF nodes[p].Marked THEN p
        ELSE NearestMarkedAncestor(nodes, p)

\* A relinking that pushes each survivor at the head of the list (the sibling
\* order comes out reversed).
RECURSIVE SurvivingChainReversed(_, _)
SurvivingChainReversed(nodes, i) ==
    IF i = None THEN <<>>
    ELSE SurvivingChainReversed(nodes, nodes[i].Sister)
         \o (IF nodes[i].Marked THEN <<i>>
             ELSE SurvivingChainReversed(nodes, nodes[i].Child))

\* The surviving nodes that take the place of the sibling chain starting at i:
\* a survivor stays, a pruned node is replaced by its own surviving children.
RECURSIVE SurvivingChain(_, _)
SurvivingChain(nodes, i) ==
    IF i = None THEN <<>>
    ELSE (IF nodes[i].Marked THEN <<i>>
          ELSE SurvivingChain(nodes, nodes[i].Child))
         \o SurvivingChain(nodes, nodes[i].Sister)

\* A prune that compacts the table and does not rewrite the parent links.
DropUnmarkedUnlinked(nodes) ==
    LET kept == SelectSeq(Iota(Len(nodes)), LAMBDA i : nodes[i].Marked)
    IN  [k \in 1..Len(kept) |->
            [nodes[kept[k]] EXCEPT !.Parent = None, !.Child = None, !.Sister = None]]

DropUnmarked(nodes) ==
    LET kept == Kept(nodes)
    IN  [k \in 1..Len(kept) |->
            LET i      == kept[k]
                parent == NearestMarkedAncestor(nodes, i)
            IN  [nodes[i] EXCEPT
                    !.Parent = NewIndex(nodes, parent),
                    !.Child  = NewIndex(nodes,
                                   FirstOf(SurvivingChain(nodes, nodes[i].Child))),
                    !.Sister = IF parent = None THEN None
                               ELSE NewIndex(nodes,
                                        NextIn(SurvivingChain(nodes, nodes[parent].Child),
                                               i))]]


\* ----------------------------------------------------------------- Grouper
\* The key of node pidIndex in the nested maps
\* ProcessGroups[parentPID][compositeKey][processOwner].
GroupKey(nodes, pidIndex) ==
    <<nodes[pidIndex].PPID, nodes[pidIndex].Signature, nodes[pidIndex].Username>>

\* A new group that starts from the CPU share of its first member, which the
\* aggregation then adds a second time.
NewGroupSeeded(nodes, pidIndex) ==
    [Count |-> 1, FirstIndex |-> pidIndex, FullPath |-> "",
     Indices |-> <<pidIndex>>, Owner |-> nodes[pidIndex].Username,
     Age |-> 0, CPUPercent |-> nodes[pidIndex].CPUPercent, MemoryUsage |-> 0,
     NumThreads |-> 0]

\* "Create a new group": the ProcessGroup literal (cmd is never assigned, so
\* FullPath is empty; the aggregates start at zero).
NewGroup(nodes, pidIndex) ==
    [Count |-> 1, FirstIndex |-> pidIndex, FullPath |-> "",
     Indices |-> <<pidIndex>>, Owner |-> nodes[pidIndex].Username,
     Age |-> 0, CPUPercent |-> 0, MemoryUsage |-> 0, NumThreads |-> 0]

\* An add that appends the member and forgets to count it.
AddToGroupNoCount(group, pidIndex) ==
    [group EXCEPT !.Indices = Append(@, pidIndex)]

\* An add that makes the latest member the representative.
AddToGroupAsFirst(group, pidIndex) ==
    [group EXCEPT !.Count = @ + 1, !.Indices = Append(@, pidIndex),
                  !.FirstIndex = pidIndex]

\* An add that puts the member in front, as a walk in an unspecified order
\* could.
AddToGroupInFront(group, pidIndex) ==
    [group EXCEPT !.Count = @ + 1, !.Indices = <<pidIndex>> \o @]

\* "Add to existing group".
AddToGroup(group, pidIndex) ==
    [group EXCEPT !.Count = @ + 1, !.Indices = Append(@, pidIndex)]

\* One iteration of the loop of InitCompactMode over state
\* st = [groups, skip, panic].
CompactStep(nodes, opts, st, pidIndex) ==
    IF pidIndex \in st.skip THEN st
    ELSE
    LET key    == GroupKey(nodes, pidIndex)
        exists == key \in DOMAIN st.groups
        group  == IF ~exists
                  THEN NewGroup(nodes, pidIndex)
                  ELSE AddToGroup(st.groups[key], pidIndex)
        skip   == IF exists THEN st.skip \cup {pidIndex} ELSE st.skip
        nilMem == opts.ShowMemoryUsage /\ nodes[pidIndex].MemoryInfo.nil
        summed == [group EXCEPT
                    !.Age = IF opts.ShowProcessAge
                            THEN MaxOf(@, nodes[pidIndex].Age) ELSE @,
                    !.CPUPercent = IF opts.ShowCpuPercent
                                   THEN @ + nodes[pidIndex].CPUPercent ELSE @,
                    !.MemoryUsage = IF opts.ShowMemoryUsage
                                    THEN @ + nodes[pidIndex].MemoryInfo.RSS ELSE @,
                    !.NumThreads = IF opts.ShowNumThreads
                                   THEN @ + nodes[pidIndex].NumThreads ELSE @]
    IN  IF nilMem
        THEN [st EXCEPT !.skip = skip, !.panic = TRUE]
        ELSE [groups |-> (key :> summed) @@ st.groups, skip |-> skip, panic |-> FALSE]

RECURSIVE CompactLoop(_, _, _, _)
CompactLoop(nodes, opts, st, pidIndex) ==
    IF pidIndex > Len(nodes) \/ st.panic THEN st
    ELSE CompactLoop(nodes, opts, CompactStep(nodes, opts, st, pidIndex), pidIndex + 1)

\* processTree.InitCompactMode(): skipProcesses is reset, ProcessGroups is not.
InitCompactMode(nodes, opts, groups) ==
    CompactLoop(nodes, opts, [groups |-> groups, skip |-> {}, panic |-> FALSE], 1)

ShouldSkipProcess(processIndex) == processIndex \in skipProcesses

\* A lookup that answers with the group for every member, not only for the
\* first one.
GetProcessCountOfAnyMember(nodes, groups, pidIndex) ==
    LET key == GroupKey(nodes, pidIndex)
    IN  IF key \in DOMAIN groups
        THEN LET group == groups[key]
             IN  [count |-> group.Count,
                  groupPIDs |-> [i \in 1..Len(group.Indices) |-> nodes[group.Indices[i]].PID],
                  age |-> group.Age, cpuPercent |-> group.CPUPercent,
                  memoryUsage |-> group.MemoryUsage, numThreads |-> group.NumThreads]
        ELSE [count |-> 1, groupPIDs |-> <<>>, age |-> 0, cpuPercent |-> 0,
              memoryUsage |-> 0, numThreads |-> 0]

\* GetProcessCount: the count, the member PIDs and the aggregates of the group
\* node pidIndex is the first member of; 1 and zeros for every other node.
GetProcessCount(nodes, groups, pidIndex) ==
    LET key == GroupKey(nodes, pidIndex)
    IN  IF key \in DOMAIN groups /\ groups[key].FirstIndex = pidIndex
        THEN LET group == groups[key]
             IN  [count |-> group.Count,
                  groupPIDs |-> [i \in 1..Len(group.Indices) |-> nodes[group.Indices[i]].PID],
                  age |-> group.Age, cpuPercent |-> group.CPUPercent,
                  memoryUsage |-> group.MemoryUsage, numThreads |-> group.NumThreads]
        ELSE [count |-> 1, groupPIDs |-> <<>>, age |-> 0, cpuPercent |-> 0,
              memoryUsage |-> 0, numThreads |-> 0]

\* The elements of the command strings of the model between path separators.
SplitPath(command) ==
    CASE command = "/bin/a" -> <<"", "bin", "a">>
      [] command = "/bin/b" -> <<"", "bin", "b">>
      [] command = "/" -> <<"", "">>
      [] OTHER -> <<command>>

\* filepath.Base: the last element of the path, trailing separators removed;
\* "." for the empty path and "/" for a path of separators only.
FilepathBase(command) ==
    LET elements == SplitPath(command)
        named    == {i \in 1..Len(elements) : elements[i] # ""}
    IN  IF command = "" THEN "."
        ELSE IF named = {} THEN "/"
        ELSE elements[CHOOSE i \in named : \A j \in named : j <= i]

\* PIDsToString: fmt.Sprintf("%d", pid) of every PID.
PIDsToString(pids) == [i \in 1..Len(pids) |-> ToString(pids[i])]

\* strings.Join.
RECURSIVE StringsJoin(_, _)
StringsJoin(elems, sep) ==
    IF elems = <<>> THEN ""
    ELSE IF Len(elems) = 1 THEN elems[1]
    ELSE elems[1] \o sep \o StringsJoin(Tail(elems), sep)

\* A compact format that keeps the whole command between the brackets.
FormatCompactOutputFullPath(command, count, groupPIDs, showPIDs) ==
    IF count <= 1 THEN command
    ELSE IF showPIDs
    THEN ToString(count) \o "*[" \o command \o "] ("
            \o StringsJoin(PIDsToString(groupPIDs), ",") \o ")"
    ELSE ToString(count) \o "*[" \o command \o "]"

\* FormatCompactOutput: "%d*[%s] (%s)" or "%d*[%s]" of the count, the base
\* name and the PIDs; the command itself for a count of 1.
FormatCompactOutput(command, count, groupPIDs, showPIDs) ==
    IF count <= 1 THEN command
    ELSE IF showPIDs
    THEN ToString(count) \o "*[" \o FilepathBase(command) \o "] ("
            \o StringsJoin(PIDsToString(groupPIDs), ",") \o ")"
    ELSE ToString(count) \o "*[" \o FilepathBase(command) \o "]"

\* ---------------------------------------------------------------- Renderer
\* The line of node pidIndex at the given depth: in compact mode the command
\* is the compact output of the node's group.
LineOf(nodes, opts, groups, pidIndex, depth) ==
    LET group == GetProcessCount(nodes, groups, pidIndex)
    IN  [index |-> pidIndex, depth |-> depth,
         command |-> IF opts.CompactMode
                     THEN FormatCompactOutput(nodes[pidIndex].Command, group.count,
                                              group.groupPIDs, opts.ShowPIDs)
                     ELSE nodes[pidIndex].Command]

\* A traversal that descends one level past the cutoff.
DescendsPastCutoff(depth, maxDepth) == depth <= maxDepth

\* The traversal descends from a node above the cutoff only.
Descends(depth, maxDepth) == depth < maxDepth

\* PrintTree: the depth-first, pre-order traversal of the subtree of
\* pidIndex; a node compact mode skips writes nothing, and the children of a
\* node at the cutoff are not visited.  PrintSiblings visits a sibling list.
RECURSIVE PrintTree(_, _, _, _, _, _)
RECURSIVE PrintSiblings(_, _, _, _, _, _)
PrintTree(nodes, opts, groups, skip, pidIndex, depth) ==
    IF opts.CompactMode /\ pidIndex \in skip THEN <<>>
    ELSE <<LineOf(nodes, opts, groups, pidIndex, depth)>>
            \o (IF Descends(depth, opts.MaxDepth)
                THEN PrintSiblings(nodes, opts, groups, skip,
                                   SiblingList(nodes, pidIndex), depth + 1)
                ELSE <<>>)

PrintSiblings(nodes, opts, groups, skip, siblings, depth) ==
    IF siblings = <<>> THEN <<>>
    ELSE PrintTree(nodes, opts, groups, skip, siblings[1], depth)
            \o PrintSiblings(nodes, opts, groups, skip, Tail(siblings), depth)

\* ------------------------------------------------- the tree part of the run
NoGroups == [k \in {} |-> 0]

RunNewProcessTree ==
    /\ pc = "tree"
    /\ Nodes' = NewProcessTree(processes)
    /\ ProcessGroups' = NoGroups
    /\ skipProcesses' = {}
    /\ pc' = "mark"
    /\ UNCHANGED <<err, flagVars, processes, sorted, displayOptions, predicate, unsorted, fetchVars, lines>>

RunMarkProcesses ==
    /\ pc = "mark"
    /\ Nodes' = MarkProcesses(Nodes, predicate)
    /\ pc' = "drop"
    /\ UNCHANGED <<err, flagVars, processes, sorted, displayOptions, predicate, unsorted, fetchVars, lines,
                   ProcessGroups, skipProcesses>>

\* A pruning that hands the tree back to the marker.
RunDropUnmarkedThenMark ==
    /\ pc = "drop"
    /\ Nodes' = DropUnmarked(Nodes)
    /\ pc' = "mark"
    /\ UNCHANGED <<err, flagVars, processes, sorted, displayOptions, predicate, unsorted, fetchVars, lines,
                   ProcessGroups, skipProcesses>>

RunDropUnmarked ==
    /\ pc = "drop"
    /\ Nodes' = DropUnmarked(Nodes)
    /\ pc' = "group"
    /\ UNCHANGED <<err, flagVars, processes, sorted, displayOptions, predicate, unsorted, fetchVars, lines,
                   ProcessGroups, skipProcesses>>

\* The grouping pass runs on the pruned tree, only in compact mode.
RunInitCompactMode ==
    /\ pc = "group"
    /\ IF displayOptions.CompactMode
       THEN LET st == InitCompactMode(Nodes, displayOptions, ProcessGroups)
            IN  /\ ProcessGroups' = st.groups
                /\ skipProcesses' = st.skip
                /\ pc' = IF st.panic THEN "panic" ELSE "print"
       ELSE /\ UNCHANGED <<ProcessGroups, skipProcesses>>
            /\ pc' = "print"
    /\ UNCHANGED <<err, flagVars, processes, sorted, displayOptions, predicate, unsorted, fetchVars, lines, Nodes>>

\* A second call of processTree.InitCompactMode() on the grouped tree:
\* skipProcesses is made anew, processTree.ProcessGroups is kept.
RunInitCompactModeAgain ==
    /\ pc = "print"
    /\ displayOptions.CompactMode
    /\ LET st == InitCompactMode(Nodes, displayOptions, ProcessGroups)
       IN  /\ ProcessGroups' = st.groups
           /\ skipProcesses' = st.skip
           /\ pc' = IF st.panic THEN "panic" ELSE "regrouped"
    /\ UNCHANGED <<err, flagVars, processes, sorted, displayOptions, predicate, unsorted,
                   fetchVars, lines, Nodes>>

\* processTree.PrintTree(0, ""): every display root is at depth 0.
RunPrintTree ==
    /\ pc = "print"
    /\ lines' = PrintSiblings(Nodes, displayOptions, ProcessGroups, skipProcesses,
                              RootList(Nodes), 0)
    /\ pc' = "done"
    /\ UNCHANGED <<err, flagVars, processes, sorted, displayOptions, predicate, unsorted,
                   fetchVars, treeVars>>

NextTree ==
    \/ RunNewProcessTree
    \/ RunMarkProcesses
    \/ RunDropUnmarked
    \/ RunInitCompactMode

\* ------------------------------------------------------------- Collector
\* util.GetUnixTimestamp(): the time of the snapshot, in seconds.
Now == MaxKey

\* miniOptions: the DisplayOptions GetProcesses receives.
MiniOptions ==
    [ColorAttr |-> flagColorAttr, OrderBy |-> flagOrderBy,
     ShowCpuPercent |-> flagCpu, ShowMemoryUsage |-> flagMemory,
     ShowNumThreads |-> flagThreads, ShowOwner |-> flagShowOwner,
     ShowPGIDs |-> flagShowPGIDs, ShowPGLs |-> flagShowPGLs,
     ShowProcessAge |-> flagAge, ShowUIDTransitions |-> flagShowUIDTransitions,
     ShowUserTransitions |-> flagShowUserTransitions,
     Usernames |-> flagUsername]

\* The conditions under which GenerateProcess fetches an optional attribute.
WantsCpu(mo) == mo.ShowCpuPercent \/ mo.OrderBy = "cpu" \/ mo.ColorAttr = "cpu"

WantsAge(mo) == mo.ShowProcessAge \/ mo.OrderBy = "age" \/ mo.ColorAttr = "age"

WantsMemory(mo) == mo.ShowMemoryUsage \/ mo.OrderBy = "mem" \/ mo.ColorAttr = "mem"

WantsThreads(mo) == mo.ShowNumThreads \/ mo.OrderBy = "threads"

WantsPgid(mo) == mo.ShowPGIDs \/ mo.ShowPGLs

WantsUsername(mo) == mo.ShowOwner \/ mo.ShowUserTransitions \/ mo.OrderBy = "user"

WantsUids(mo) == mo.ShowUIDTransitions \/ mo.ShowUserTransitions

\* The function ProcessCommandName sends: exe, else the first word of the
\* command line, else the name, else "[PID n]"; it returns no error.
ProcessCommandName(proc) ==
    IF "exe" \notin proc.failed /\ proc.Exe # "" THEN proc.Exe
    ELSE IF "cmdline" \notin proc.failed /\ Len(proc.Cmdline) > 0 THEN proc.Cmdline[1]
    ELSE IF "name" \notin proc.failed /\ proc.Name # "" THEN proc.Name
    ELSE "[PID]"

\* The function ProcessCreateTime sends: milliseconds to seconds.
ProcessCreateTime(proc) == proc.CreateTime \div 1000

\* A fetch whose error is ignored: the value is used as it is.
FetchIgnoringError(proc, fetch, out, default) == out

\* out, err := (<-channel)(proc); if err != nil { x = default } else { x = out }
Fetch(proc, fetch, out, default) == IF fetch \in proc.failed THEN default ELSE out

\* if len(args) > 0 && args[0] == command: the arguments without the command.
StripCommand(args, command) ==
    IF Len(args) > 0 /\ args[1] = command THEN Tail(args) ELSE args

\* GenerateProcess: proc is the gopsutil process (its attributes as the OS
\* reports them at the snapshot, failed the fetches that return an error).
\* CPU percentages are whole numbers, which the rounding to two decimals of
\* the Process literal leaves as they are.
GenerateProcess(proc, miniOptions) ==
    LET args0      == Fetch(proc, "args", proc.Cmdline, <<>>)
        command    == ProcessCommandName(proc)
        ppid       == Fetch(proc, "ppid", proc.Ppid, -1)
        cpuPercent == IF WantsCpu(miniOptions)
                      THEN Fetch(proc, "cpu", proc.CPUPercent, -1) ELSE 0
        createTime == IF WantsAge(miniOptions)
                      THEN Fetch(proc, "createTime", ProcessCreateTime(proc), -1) ELSE 0
        memoryInfo == IF WantsMemory(miniOptions)
                      THEN Fetch(proc, "mem", MemInfo(proc.RSS), MemInfo(0)) ELSE NilMem
        memPercent == IF WantsMemory(miniOptions)
                      THEN Fetch(proc, "memoryPercent", proc.MemoryPercent, -1) ELSE 0
        numThreads == IF WantsThreads(miniOptions)
                      THEN Fetch(proc, "threads", proc.NumThreads, -1) ELSE 0
        pgid       == IF WantsPgid(miniOptions)
                      THEN Fetch(proc, "pgid", proc.Pgid, -1) ELSE 0
        username   == IF WantsUsername(miniOptions)
                      THEN Fetch(proc, "username", proc.Username, "?") ELSE ""
        uids       == IF WantsUids(miniOptions)
                      THEN Fetch(proc, "uids", proc.Uids, <<>>) ELSE <<>>
        args       == StripCommand(args0, command)
    IN  [Process(proc.Pid, ppid, username, command, Now - createTime,
                 cpuPercent, memoryInfo, numThreads)
            EXCEPT !.Args = args]
          @@ [CreateTime |-> createTime, MemoryPercent |-> memPercent,
              PGID |-> pgid, UIDs |-> uids]

\* SortByPid: the gopsutil processes (a set, PIDs unique) in ascending PID order.
RECURSIVE SortByPid(_)
SortByPid(procs) ==
    IF procs = {} THEN <<>>
    ELSE LET first == CHOOSE p \in procs : \A q \in procs : p.Pid <= q.Pid
         IN  <<first>> \o SortByPid(procs \ {first})

\* GetProcesses: the records appended to *processes.
GetProcesses(snapshot, miniOptions) ==
    LET srt == SortByPid(snapshot)
    IN  [i \in 1..Len(srt) |-> GenerateProcess(srt[i], miniOptions)]

\* ------------------------------------------------------------------ Sorter
\* GetProcessByPid: the first record with the PID, or an error.
GetProcessByPid(procs, pid) ==
    LET hits == {i \in 1..Len(procs) : procs[i].PID = pid}
    IN  IF hits = {} THEN [ok |-> FALSE, proc |-> NilMem]
        ELSE [ok |-> TRUE, proc |-> procs[MinOf(hits)]]

\* sort.Slice is not stable: it may leave the slice in any order in which no
\* element is less than an earlier one; less is the set of the pairs <<a, b>>
\* of elements for which the less function returns true.
SortSlice(s, less) ==
    {t \in PermsOf(s) : \A i, j \in 1..Len(t) : i < j => <<t[j], t[i]>> \notin less}

\* A comparison that orders by age descending.
LessByAgeDescending(a, b) == a.Age > b.Age

LessByAge(a, b) == a.Age < b.Age

LessByCpu(a, b) == a.CPUPercent < b.CPUPercent

\* float64(RSS) < float64(RSS): exact for the RSS values of the model.
LessByMemory(a, b) == a.MemoryInfo.RSS < b.MemoryInfo.RSS

LessByUsername(a, b) == StringRank(a.Username) < StringRank(b.Username)

LessByPid(a, b) == a.PID < b.PID

LessByNumThreads(a, b) == a.NumThreads < b.NumThreads

SortProcsByAge(procs) ==
    SortSlice(procs, {pr \in Range(procs) \X Range(procs) : LessByAge(pr[1], pr[2])})

SortProcsByCpu(procs) ==
    SortSlice(procs, {pr \in Range(procs) \X Range(procs) : LessByCpu(pr[1], pr[2])})

SortProcsByMemory(procs) ==
    SortSlice(procs, {pr \in Range(procs) \X Range(procs) : LessByMemory(pr[1], pr[2])})

SortProcsByUsername(procs) ==
    SortSlice(procs, {pr \in Range(procs) \X Range(procs) : LessByUsername(pr[1], pr[2])})

SortProcsByPid(procs) ==
    SortSlice(procs, {pr \in Range(procs) \X Range(procs) : LessByPid(pr[1], pr[2])})

SortProcsByNumThreads(procs) ==
    SortSlice(procs, {pr \in Range(procs) \X Range(procs) : LessByNumThreads(pr[1], pr[2])})

\* ------------------------------------------------------------ pstreeRunCmd
validAttributes == {"age", "cpu", "mem"}

validOrderBy == {"age", "cpu", "mem", "pid", "threads", "user"}

validColorSchemes == {"darwin", "linux", "powershell", "windows10", "xterm"}

\* util.BtoI: 1 for true, 0 for false.
BtoI(b) == IF b THEN 1 ELSE 0

\* util.StoI: 1 for a non-empty string, 0 for the empty string.
StoI(str) == IF str # "" THEN 1 ELSE 0

\* The flag rules without rule 8.
RuleErrorWithoutRule8 ==
    IF changedUser /\ flagExcludeRoot
    THEN "--user and --exclude-root cannot be used together"
    ELSE IF BtoI(flagColor) + BtoI(flagRainbow) + StoI(flagColorAttr) > 1
    THEN "only one of --color-attr, --color, and --rainbow can be used"
    ELSE IF BtoI(flagIBM850) + BtoI(flagUTF8) + BtoI(flagVT100) > 1
    THEN "only one of --ibm-850, --utf-8, and --vt-100 can be used"
    ELSE IF flagColorAttr # "" /\ flagColorAttr \notin validAttributes
    THEN "valid options for --color-attr are: age, cpu, mem"
    ELSE IF BtoI(flagShowUIDTransitions) + BtoI(flagShowUserTransitions) > 1
    THEN "only one of --uid-transitions and --user-transitions can be used"
    ELSE IF changedLevel /\ flagLevel < 1
    THEN "--level cannot be set to less than 1"
    ELSE IF flagColorScheme # "" /\ flagColorScheme \notin validColorSchemes
    THEN "valid options for --color-scheme are: darwin, linux, powershell, windows10, xterm"
    ELSE ""

\* The flag rules without rule 7.
RuleErrorWithoutRule7 ==
    IF changedUser /\ flagExcludeRoot
    THEN "--user and --exclude-root cannot be used together"
    ELSE IF BtoI(flagColor) + BtoI(flagRainbow) + StoI(flagColorAttr) > 1
    THEN "only one of --color-attr, --color, and --rainbow can be used"
    ELSE IF BtoI(flagIBM850) + BtoI(flagUTF8) + BtoI(flagVT100) > 1
    THEN "only one of --ibm-850, --utf-8, and --vt-100 can be used"
    ELSE IF flagColorAttr # "" /\ flagColorAttr \notin validAttributes
    THEN "valid options for --color-attr are: age, cpu, mem"
    ELSE IF BtoI(flagShowUIDTransitions) + BtoI(flagShowUserTransitions) > 1
    THEN "only one of --uid-transitions and --user-transitions can be used"
    ELSE IF changedLevel /\ flagLevel < 1
    THEN "--level cannot be set to less than 1"
    ELSE IF flagColorScheme # "" /\ (flagColorAttr # "" \/ flagRainbow)
    THEN "--color-scheme cannot be used with --color-attr or --rainbow"
    ELSE ""

\* The flag rules without rule 6.
RuleErrorWithoutRule6 ==
    IF changedUser /\ flagExcludeRoot
    THEN "--user and --exclude-root cannot be used together"
    ELSE IF BtoI(flagColor) + BtoI(flagRainbow) + StoI(flagColorAttr) > 1
    THEN "only one of --color-attr, --color, and --rainbow can be used"
    ELSE IF BtoI(flagIBM850) + BtoI(flagUTF8) + BtoI(flagVT100) > 1
    THEN "only one of --ibm-850, --utf-8, and --vt-100 can be used"
    ELSE IF flagColorAttr # "" /\ flagColorAttr \notin validAttributes
    THEN "valid options for --color-attr are: age, cpu, mem"
    ELSE IF BtoI(flagShowUIDTransitions) + BtoI(flagShowUserTransitions) > 1
    THEN "only one of --uid-transitions and --user-transitions can be used"
    ELSE IF flagColorScheme # "" /\ flagColorScheme \notin validColorSchemes
    THEN "valid options for --color-scheme are: darwin, linux, powershell, windows10, xterm"
    ELSE IF flagColorScheme # "" /\ (flagColorAttr # "" \/ flagRainbow)
    THEN "--color-scheme cannot be used with --color-attr or --rainbow"
    ELSE ""

\* The flag rules 1 to 8 in the order of the code: the error returned, ""
\* when none applies.
RuleError ==
    IF changedUser /\ flagExcludeRoot
    THEN "--user and --exclude-root cannot be used together"
    ELSE IF BtoI(flagColor) + BtoI(flagRainbow) + StoI(flagColorAttr) > 1
    THEN "only one of --color-attr, --color, and --rainbow can be used"
    ELSE IF BtoI(flagIBM850) + BtoI(flagUTF8) + BtoI(flagVT100) > 1
    THEN "only one of --ibm-850, --utf-8, and --vt-100 can be used"
    ELSE IF flagColorAttr # "" /\ flagColorAttr \notin validAttributes
    THEN "valid options for --color-attr are: age, cpu, mem"
    ELSE IF BtoI(flagShowUIDTransitions) + BtoI(flagShowUserTransitions) > 1
    THEN "only one of --uid-transitions and --user-transitions can be used"
    ELSE IF changedLevel /\ flagLevel < 1
    THEN "--level cannot be set to less than 1"
    ELSE IF flagColorScheme # "" /\ flagColorScheme \notin validColorSchemes
    THEN "valid options for --color-scheme are: darwin, linux, powershell, windows10, xterm"
    ELSE IF flagColorScheme # "" /\ (flagColorAttr # "" \/ flagRainbow)
    THEN "--color-scheme cannot be used with --color-attr or --rainbow"
    ELSE ""

CheckRules ==
    /\ pc = "rules"
    /\ IF RuleError # ""
       THEN pc' = "done" /\ err' = RuleError
       ELSE pc' = "collect" /\ err' = err
    /\ UNCHANGED <<flagVars, processes, sorted, displayOptions, predicate, unsorted, fetchVars, lines, treeVars>>

\* What the OS may report for a process of a snapshot: failures are the sets
\* of fetches that may return an error, cmdlines the command lines, ppids the
\* parent PIDs and exes the executable paths.
OsDefaults == [failures |-> {{}}, cmdlines |-> {<<>>}, ppids |-> {0, 1}, exes |-> {"a"}]

\* The user names and the real and effective UIDs of the processes.
OsUsernames == {"alice", "bob", "root"}

OsUids == {<<0, 0>>, <<1, 0>>, <<1, 1>>}

\* The attributes of a gopsutil process as the OS reports them at the
\* snapshot: an attribute the run does not fetch is left at its zero value.
OsAttributes(mo, os) ==
    [CreateTime : IF WantsAge(mo) THEN {1000 * c : c \in 0..MaxKey} ELSE {0},
     CPUPercent : IF WantsCpu(mo) THEN 0..MaxKey ELSE {0},
     RSS        : IF WantsMemory(mo) THEN 0..MaxKey ELSE {0},
     NumThreads : IF WantsThreads(mo) THEN 1..(MaxKey + 1) ELSE {0},
     Pgid       : IF WantsPgid(mo) THEN 1..(MaxKey + 1) ELSE {0},
     Username   : IF WantsUsername(mo) THEN OsUsernames ELSE {"root"},
     Uids       : IF WantsUids(mo) THEN OsUids ELSE {<<>>},
     Ppid       : os.ppids,
     Exe        : os.exes,
     Cmdline    : os.cmdlines,
     failed     : os.failures]

\* The gopsutil process of a PID: a parent has a lower PID than its child,
\* PIDs 0 and 1 have parent 0; the memory percentage follows from the resident
\* set size.
OsProcess(pid, a) ==
    [Pid |-> pid, Ppid |-> IF a.Ppid < pid THEN a.Ppid ELSE 0,
     Exe |-> a.Exe, Cmdline |-> a.Cmdline, Name |-> a.Exe,
     CreateTime |-> a.CreateTime, CPUPercent |-> a.CPUPercent,
     RSS |-> a.RSS, MemoryPercent |-> a.RSS, NumThreads |-> a.NumThreads,
     Pgid |-> a.Pgid, Username |-> a.Username, Uids |-> a.Uids,
     failed |-> a.failed]

\* The optional fetches, which fail together for a process the user may not
\* read.
OptionalFetches == {"cpu", "createTime", "mem", "threads", "username"}

\* pstree.GetProcesses(&processes, miniOptions) on a snapshot of at most
\* MaxProcs processes with PIDs drawn from pids.
RunGetProcesses(pids, os) ==
    /\ pc = "collect"
    /\ \E P \in {Q \in SUBSET pids : Cardinality(Q) <= MaxProcs} :
          \E f \in [P -> OsAttributes(MiniOptions, os)] :
              /\ unsorted' = {OsProcess(pid, f[pid]) : pid \in P}
              /\ processes' = processes \o GetProcesses(unsorted', MiniOptions)
    /\ pc' = "order"
    /\ UNCHANGED <<err, flagVars, fetchVars, lines, sorted, displayOptions, predicate, treeVars>>

\* The switch on flagOrderBy: the orders the sort can leave the slice in.
SortProcsBy(orderBy, procs) ==
    CASE orderBy = "age"     -> SortProcsByAge(procs)
      [] orderBy = "cpu"     -> SortProcsByCpu(procs)
      [] orderBy = "mem"     -> SortProcsByMemory(procs)
      [] orderBy = "pid"     -> SortProcsByPid(procs)
      [] orderBy = "threads" -> SortProcsByNumThreads(procs)
      [] orderBy = "user"    -> SortProcsByUsername(procs)
      [] OTHER               -> {procs}

\* An ordering that puts the root in front and leaves it among the others.
WithRootTwice(proc, procs) == <<proc>> \o procs

\* An ordering that hands the sorted slice on as it is.
WithoutRootFirst(proc, procs) == procs

\* sorted = []Process{proc} followed by every record whose PID is not 1.
WithRootFirst(proc, procs) ==
    <<proc>> \o SelectSeq(procs, LAMBDA p : p.PID # 1)

OrderProcesses ==
    /\ pc = "order"
    /\ IF flagOrderBy = ""
       THEN /\ pc' = "options"
            /\ UNCHANGED <<err, processes, sorted, showVars>>
       ELSE IF flagOrderBy \notin validOrderBy
       THEN /\ pc' = "done"
            /\ err' = "valid options for --order-by are: age, cpu, mem, pid, threads, user"
            /\ UNCHANGED <<processes, sorted, showVars>>
       ELSE LET found == GetProcessByPid(processes, 1)
                nilMem == /\ flagOrderBy = "mem"
                          /\ Len(processes) > 1
                          /\ \E i \in 1..Len(processes) : processes[i].MemoryInfo.nil
            IN  IF ~found.ok \/ nilMem
                THEN /\ pc' = "panic"
                     /\ UNCHANGED <<err, processes, sorted, showVars>>
                ELSE /\ \E s \in SortProcsBy(flagOrderBy, processes) :
                           /\ sorted' = WithRootFirst(found.proc, s)
                           /\ processes' = sorted'
                     /\ flagAge' = (flagAge \/ flagOrderBy = "age")
                     /\ flagCpu' = (flagCpu \/ flagOrderBy = "cpu")
                     /\ flagMemory' = (flagMemory \/ flagOrderBy = "mem")
                     /\ flagShowPIDs' = (flagShowPIDs \/ flagOrderBy = "pid")
                     /\ flagThreads' = (flagThreads \/ flagOrderBy = "threads")
                     /\ flagShowOwner' = (flagShowOwner \/ flagOrderBy = "user")
                     /\ pc' = "options"
                     /\ err' = err
    /\ UNCHANGED <<changedLevel, flagOrderBy, flagColorAttr, flagContains,
                   flagCompactNot, flagLevel, flagShowUserTransitions, flagColor,
                   flagUsername, styleVars, displayOptions, predicate, unsorted, fetchVars, lines, treeVars>>

\* A check that disables compact mode for --color-attr only.
CompactNotForColorAttrOnly(colorAttr, contains, compactNot) ==
    IF colorAttr # "" THEN TRUE ELSE compactNot

\* "If any of the following flags are set, then compact mode should be
\* disabled": the value of flagCompactNot after the check.
CompactNot(colorAttr, contains, compactNot) ==
    IF colorAttr # "" \/ contains # "" THEN TRUE ELSE compactNot

\* The DisplayOptions literal (the fields the pipeline reads).
DisplayOptionsOf(colorAttr, compactNot, contains, level, orderBy, age, cpu, mem, threads, owner, pids) ==
    [ColorAttr |-> colorAttr, CompactMode |-> ~compactNot, Contains |-> contains,
     MaxDepth |-> level, OrderBy |-> orderBy,
     ShowCpuPercent |-> cpu, ShowMemoryUsage |-> mem, ShowNumThreads |-> threads,
     ShowOwner |-> owner, ShowPIDs |-> pids, ShowProcessAge |-> age]

\* The DisplayOptions literal: the fields of the color, glyph, transition
\* and exclude-root flags.
StyleOptionsOf(color, rainbow, scheme, ibm850, utf8, vt100, uidTrans, userTrans, excludeRoot) ==
    [ColorizeOutput |-> color, RainbowOutput |-> rainbow, ColorScheme |-> scheme,
     IBM850Graphics |-> ibm850, UTF8Graphics |-> utf8, VT100Graphics |-> vt100,
     ShowUIDTransitions |-> uidTrans, ShowUserTransitions |-> userTrans,
     ExcludeRoot |-> excludeRoot]

NoStyleOptions ==
    StyleOptionsOf(FALSE, FALSE, "", FALSE, FALSE, FALSE, FALSE, FALSE, FALSE)

\* The zero value of DisplayOptions.
NoDisplayOptions ==
    DisplayOptionsOf("", TRUE, "", 0, "", FALSE, FALSE, FALSE, FALSE, FALSE, FALSE)
        @@ NoStyleOptions

\* A color flag that ignores --color-scheme.
ColorOfFlagOnly(color, scheme) == color

\* if flagColorScheme != "" { flagColor = true }
ColorOf(color, scheme) == IF scheme # "" THEN TRUE ELSE color

\* The color, glyph, transition, user and exclude-root flags not given.
NoStyleFlags ==
    /\ changedUser = FALSE
    /\ flagExcludeRoot = FALSE
    /\ flagColor = FALSE
    /\ flagRainbow = FALSE
    /\ flagColorScheme = ""
    /\ flagIBM850 = FALSE
    /\ flagUTF8 = FALSE
    /\ flagVT100 = FALSE
    /\ flagShowUIDTransitions = FALSE
    /\ flagShowPGIDs = FALSE
    /\ flagShowPGLs = FALSE

BuildDisplayOptions ==
    /\ pc = "options"
    /\ flagLevel' = IF flagLevel = 0 THEN DefaultLevel ELSE flagLevel
    /\ flagCompactNot' = CompactNot(flagColorAttr, flagContains, flagCompactNot)
    /\ flagColor' = ColorOf(flagColor, flagColorScheme)
    /\ displayOptions' =
           DisplayOptionsOf(flagColorAttr, flagCompactNot', flagContains, flagLevel',
                            flagOrderBy, flagAge, flagCpu, flagMemory, flagThreads,
                            flagShowOwner, flagShowPIDs)
             @@ StyleOptionsOf(flagColor', flagRainbow, flagColorScheme, flagIBM850,
                               flagUTF8, flagVT100, flagShowUIDTransitions,
                               flagShowUserTransitions, flagExcludeRoot)
    /\ pc' = "tree"
    /\ UNCHANGED <<err, changedLevel, flagOrderBy, flagColorAttr, flagContains,
                   showVars, flagShowUserTransitions, flagUsername, styleVars, processes,
                   sorted, predicate, unsorted, fetchVars, lines, treeVars>>

\* ------------------------------------------------- the user names of --user
\* The accounts of the system, and the names a user may ask for.
ExistingUsers == {"bob", "root"}

RequestedUsers == {"bob", "ghost", "nosuch", "root"}

UserExists(username) == username \in ExistingUsers

\* util.DeleteSliceElement(slice, index), index counted from 1 here.
DeleteSliceElement(slice, index) ==
    SubSeq(slice, 1, index - 1) \o SubSeq(slice, index + 1, Len(slice))

\* The validation loop over the user names.  The range runs over the slice as
\* it was at the start (backing: its array, of the initial length); every
\* name that does not exist deletes the element at index 0 of flagUsername
\* (the inner loop ranges over the indices of excluded, which holds one
\* element).  inPlace: DeleteSliceElement shifts the elements within the
\* array the range reads from; otherwise it builds a new slice.
RECURSIVE UsersLoop(_, _, _, _)
UsersLoop(names, backing, i, inPlace) ==
    IF i > Len(backing) THEN names
    ELSE IF UserExists(backing[i]) THEN UsersLoop(names, backing, i + 1, inPlace)
    ELSE UsersLoop(DeleteSliceElement(names, 1),
                   IF inPlace
                   THEN Tail(names) \o SubSeq(backing, Len(names), Len(backing))
                   ELSE backing,
                   i + 1, inPlace)

\* The loop over flagUsername before the options are built.
ValidateUsers ==
    /\ pc = "users"
    /\ \E inPlace \in BOOLEAN :
          flagUsername' = UsersLoop(flagUsername, flagUsername, 1, inPlace)
    /\ pc' = "collect"
    /\ UNCHANGED <<err, changedLevel, flagOrderBy, flagColorAttr, flagContains,
                   flagCompactNot, flagLevel, showVars, flagShowUserTransitions, flagColor,
                   styleVars, unsorted, fetchVars, lines, processes, sorted,
                   displayOptions, predicate, treeVars>>

\* ------------------------------------------------ the snapshots of the model
\* The PID of the i-th record of a tree snapshot: 1, 3, 5, ...
PidAt(i) == 2 * i - 1

\* PPIDs that name no record of a tree snapshot.
AbsentPPIDs == {0, 2}

\* Every record reaches a root by following its parent: the parent relation
\* has no cycle other than a record that is its own parent.
RECURSIVE ReachesRoot(_, _, _)
ReachesRoot(procs, i, fuel) ==
    \/ ParentIndex(procs, i) = None
    \/ fuel > 0 /\ ReachesRoot(procs, ParentIndex(procs, i), fuel - 1)

IsForest(procs) == \A i \in 1..Len(procs) : ReachesRoot(procs, i, Len(procs))

\* The snapshots of n records whose <<owner, command>> pairs are drawn from
\* the given set; attrs says which optional attributes GenerateProcess
\* collected.
TreeSnapshots(n, owned, attrs) ==
    LET ppids == AbsentPPIDs \cup {PidAt(i) : i \in 1..n}
        all   == {[i \in 1..n |->
                      Process(PidAt(i), pp[i], oc[i][1], oc[i][2],
                              IF attrs THEN MaxKey - (i % (MaxKey + 1)) ELSE MaxKey,
                              IF attrs THEN i % (MaxKey + 1) ELSE 0,
                              IF attrs THEN MemInfo(i % (MaxKey + 1)) ELSE NilMem,
                              IF attrs THEN 1 + (i % MaxKey) ELSE 0)] :
                    pp \in [1..n -> ppids], oc \in [1..n -> owned]}
    IN  {procs \in all : IsForest(procs)}

\* The flags and the DisplayOptions of a run that reached the tree builder
\* with no --order-by, --color-attr or --contains; attrs: --age, --cpu, --mem,
\* --threads and --show-owner are given.
InitTreeFlags(compact, attrs) ==
    /\ err = ""
    /\ flagUsername = <<>>
    /\ unsorted = {}
    /\ fetchIdx = 1
    /\ sending = {}
    /\ running = {}
    /\ completed = {}
    /\ lines = <<>>
    /\ changedLevel = FALSE
    /\ flagOrderBy = ""
    /\ flagColorAttr = ""
    /\ flagContains = ""
    /\ flagLevel = DefaultLevel
    /\ flagCompactNot = ~compact
    /\ flagAge = attrs
    /\ flagCpu = attrs
    /\ flagMemory = attrs
    /\ flagThreads = attrs
    /\ flagShowOwner = attrs
    /\ flagShowPIDs = FALSE
    /\ flagShowUserTransitions = FALSE
    /\ NoStyleFlags
    /\ displayOptions =
           DisplayOptionsOf("", ~compact, "", DefaultLevel, "", attrs, attrs, attrs,
                            attrs, attrs, FALSE) @@ NoStyleOptions

\* The tree pipeline under every filter predicate.
Init ==
    /\ pc = "tree"
    /\ \E compact \in BOOLEAN : InitTreeFlags(compact, FALSE)
    /\ \E n \in 1..MaxProcs :
          /\ processes \in TreeSnapshots(n, {<<"", "a">>}, FALSE)
          /\ predicate \in SUBSET (1..n)
    /\ sorted = <<>>
    /\ Nodes = <<>>
    /\ ProcessGroups = NoGroups
    /\ skipProcesses = {}

Spec == Init /\ [][NextTree]_vars

\* The node table the grouping pass receives: the snapshot built, marked and
\* pruned.
PrunedTree(procs, pred) ==
    DropUnmarked(MarkProcesses(NewProcessTree(procs), pred))

\* The run at the grouping pass, in compact mode under the identity filter,
\* with varying owners and commands.
InitGroup ==
    /\ pc = "group"
    /\ InitTreeFlags(TRUE, TRUE)
    /\ \E n \in 1..MaxProcs :
          /\ processes \in TreeSnapshots(n, {<<"root", "a">>, <<"bob", "a">>,
                                              <<"root", "b">>}, TRUE)
          /\ predicate = 1..n
    /\ sorted = <<>>
    /\ Nodes = PrunedTree(processes, predicate)
    /\ ProcessGroups = NoGroups
    /\ skipProcesses = {}

NextGroup == RunInitCompactMode

SpecGroup == InitGroup /\ [][NextGroup]_vars

\* The owners and commands of the processes of the aggregated runs.
AggregateOwned == {<<"root", "a">>, <<"root", "b">>}

\* The record of a process whose age or whose CPU, memory and thread
\* attributes GenerateProcess did not collect: the creation time stays 0, so
\* the age is the time of the snapshot; the others stay at their zero values.
Uncollected(p, age, usage) ==
    [p EXCEPT !.Age = IF age THEN @ ELSE Now,
              !.CPUPercent = IF usage THEN @ ELSE 0,
              !.MemoryInfo = IF usage THEN @ ELSE NilMem,
              !.NumThreads = IF usage THEN @ ELSE 0]

\* The run at the grouping pass, in compact mode under the identity filter,
\* with and without --age and with and without --cpu, --mem and --threads.
InitAggregate ==
    /\ pc = "group"
    /\ err = ""
    /\ flagUsername = <<>>
    /\ unsorted = {}
    /\ fetchIdx = 1
    /\ sending = {}
    /\ running = {}
    /\ completed = {}
    /\ lines = <<>>
    /\ changedLevel = FALSE
    /\ flagOrderBy = ""
    /\ flagColorAttr = ""
    /\ flagContains = ""
    /\ flagLevel = DefaultLevel
    /\ flagCompactNot = FALSE
    /\ flagAge \in BOOLEAN
    /\ flagCpu \in BOOLEAN
    /\ flagMemory = flagCpu
    /\ flagThreads = flagCpu
    /\ flagShowOwner = TRUE
    /\ flagShowPIDs = FALSE
    /\ flagShowUserTransitions = FALSE
    /\ NoStyleFlags
    /\ displayOptions =
           DisplayOptionsOf("", FALSE, "", DefaultLevel, "", flagAge, flagCpu, flagMemory,
                            flagThreads, TRUE, FALSE) @@ NoStyleOptions
    /\ \E n \in 1..MaxProcs :
          \E procs \in TreeSnapshots(n, AggregateOwned, TRUE) :
              /\ processes = [i \in 1..n |-> Uncollected(procs[i], flagAge, flagCpu)]
              /\ predicate = 1..n
    /\ sorted = <<>>
    /\ Nodes = PrunedTree(processes, predicate)
    /\ ProcessGroups = NoGroups
    /\ skipProcesses = {}

NextAggregate == RunInitCompactMode

SpecAggregate == InitAggregate /\ [][NextAggregate]_vars

\* The grouping pass applied twice, in compact mode under the identity filter.
InitRegroup ==
    /\ pc = "group"
    /\ InitTreeFlags(TRUE, TRUE)
    /\ \E n \in 1..MaxProcs :
          /\ processes \in TreeSnapshots(n, AggregateOwned, TRUE)
          /\ predicate = 1..n
    /\ sorted = <<>>
    /\ Nodes = PrunedTree(processes, predicate)
    /\ ProcessGroups = NoGroups
    /\ skipProcesses = {}

NextRegroup ==
    \/ RunInitCompactMode
    \/ RunInitCompactModeAgain

SpecRegroup == InitRegroup /\ [][NextRegroup]_vars

\* The snapshots of n records under every assignment of ppid values: 0, the
\* record's own pid or the pid of any other record, cycles included.
AnySnapshots(n) ==
    LET ppids == {0} \cup {PidAt(i) : i \in 1..n}
    IN  {[i \in 1..n |-> Process(PidAt(i), pp[i], "", "a", MaxKey, 0, NilMem, 0)] :
            pp \in [1..n -> ppids]}

\* The tree pipeline from the tree builder to the renderer on any snapshot.
InitWalk ==
    /\ pc = "tree"
    /\ \E compact \in BOOLEAN : InitTreeFlags(compact, FALSE)
    /\ \E n \in 1..MaxProcs :
          /\ processes \in AnySnapshots(n)
          /\ predicate \in SUBSET (1..n)
    /\ sorted = <<>>
    /\ Nodes = <<>>
    /\ ProcessGroups = NoGroups
    /\ skipProcesses = {}

NextWalk ==
    \/ RunNewProcessTree
    \/ RunMarkProcesses
    \/ RunDropUnmarked
    \/ RunInitCompactMode
    \/ RunPrintTree

SpecWalk == InitWalk /\ [][NextWalk]_vars

\* The run from the validation of the user names to the collection, with
\* every list of at most MaxUsers requested names.
InitUsers ==
    /\ pc = "users"
    /\ err = ""
    /\ unsorted = {}
    /\ fetchIdx = 1
    /\ sending = {}
    /\ running = {}
    /\ completed = {}
    /\ lines = <<>>
    /\ processes = <<>>
    /\ sorted = <<>>
    /\ displayOptions = NoDisplayOptions
    /\ predicate = {}
    /\ Nodes = <<>>
    /\ ProcessGroups = NoGroups
    /\ skipProcesses = {}
    /\ \E n \in 0..MaxUsers : flagUsername \in [1..n -> RequestedUsers]
    /\ changedLevel = FALSE
    /\ flagLevel = 0
    /\ flagOrderBy = ""
    /\ flagColorAttr = ""
    /\ flagContains = ""
    /\ flagCompactNot = FALSE
    /\ flagAge = FALSE
    /\ flagCpu = FALSE
    /\ flagMemory = FALSE
    /\ flagThreads = FALSE
    /\ flagShowOwner = FALSE
    /\ flagShowPIDs = FALSE
    /\ flagShowUserTransitions = FALSE
    /\ changedUser = (flagUsername # <<>>)
    /\ flagExcludeRoot = FALSE
    /\ flagColor = FALSE
    /\ flagRainbow = FALSE
    /\ flagColorScheme = ""
    /\ flagIBM850 = FALSE
    /\ flagUTF8 = FALSE
    /\ flagVT100 = FALSE
    /\ flagShowUIDTransitions = FALSE
    /\ flagShowPGIDs = FALSE
    /\ flagShowPGLs = FALSE

NextUsers ==
    \/ ValidateUsers
    \/ RunGetProcesses({1}, OsDefaults)

SpecUsers == InitUsers /\ [][NextUsers]_vars

\* ------------------------------------------- the run up to the tree builder
InitRunState ==
    /\ pc = "rules"
    /\ err = ""
    /\ flagUsername = <<>>
    /\ unsorted = {}
    /\ fetchIdx = 1
    /\ sending = {}
    /\ running = {}
    /\ completed = {}
    /\ lines = <<>>
    /\ processes = <<>>
    /\ sorted = <<>>
    /\ displayOptions = NoDisplayOptions
    /\ predicate = {}
    /\ Nodes = <<>>
    /\ ProcessGroups = NoGroups
    /\ skipProcesses = {}

\* The run with every combination of the filter, compaction and level flags,
\* on snapshots of at most two processes.
InitRun ==
    /\ InitRunState
    /\ changedLevel \in BOOLEAN
    /\ flagLevel \in IF changedLevel THEN 0..2 ELSE {0}
    /\ flagOrderBy \in {"", "pid", "bogus"}
    /\ flagColorAttr \in validAttributes \cup {"", "bogus"}
    /\ flagContains \in {"", "a"}
    /\ flagCompactNot \in BOOLEAN
    /\ flagAge = FALSE
    /\ flagCpu = FALSE
    /\ flagMemory = FALSE
    /\ flagThreads = FALSE
    /\ flagShowOwner = FALSE
    /\ flagShowPIDs = FALSE
    /\ flagShowUserTransitions = FALSE
    /\ NoStyleFlags

\* A process of the run may be one the user may not read.
OsRun == [OsDefaults EXCEPT !.failures = {{}, OptionalFetches}]

NextRun ==
    \/ CheckRules
    \/ RunGetProcesses({1, 2}, OsRun)
    \/ OrderProcesses
    \/ BuildDisplayOptions

SpecRun == InitRun /\ [][NextRun]_vars

\* The fetches of the memory block whose defaults the record shows.
MemoryFetches == {"mem", "memoryPercent"}

\* The fetches GenerateProcess dispatches under every option.
AlwaysFetched == {"args", "ppid"}

\* The fetches GenerateProcess dispatches under the given options.
DispatchedFetches(mo) ==
    AlwaysFetched
        \cup (IF WantsCpu(mo) THEN {"cpu"} ELSE {})
        \cup (IF WantsAge(mo) THEN {"createTime"} ELSE {})
        \cup (IF WantsMemory(mo) THEN MemoryFetches ELSE {})
        \cup (IF WantsThreads(mo) THEN {"threads"} ELSE {})
        \cup (IF WantsPgid(mo) THEN {"pgid"} ELSE {})
        \cup (IF WantsUsername(mo) THEN {"username"} ELSE {})
        \cup (IF WantsUids(mo) THEN {"uids"} ELSE {})

\* The collection with one optional attribute requested at a time, on
\* snapshots of at most two processes, any subset of whose dispatched fetches
\* fails.
InitCollect ==
    /\ InitRunState
    /\ changedLevel = FALSE
    /\ flagLevel = 0
    /\ flagOrderBy = ""
    /\ flagColorAttr = ""
    /\ flagContains = ""
    /\ flagCompactNot = FALSE
    /\ flagShowPIDs = FALSE
    /\ flagShowUserTransitions = FALSE
    /\ changedUser = FALSE
    /\ flagExcludeRoot = FALSE
    /\ flagColor = FALSE
    /\ flagRainbow = FALSE
    /\ flagColorScheme = ""
    /\ flagIBM850 = FALSE
    /\ flagUTF8 = FALSE
    /\ flagVT100 = FALSE
    /\ flagShowPGLs = FALSE
    /\ \E wanted \in {"", "age", "cpu", "mem", "threads", "owner", "pgid", "uid"} :
          /\ flagAge = (wanted = "age")
          /\ flagCpu = (wanted = "cpu")
          /\ flagMemory = (wanted = "mem")
          /\ flagThreads = (wanted = "threads")
          /\ flagShowOwner = (wanted = "owner")
          /\ flagShowPGIDs = (wanted = "pgid")
          /\ flagShowUIDTransitions = (wanted = "uid")

\* The command lines of the collection: one starts with the command.
OsCollect == [OsDefaults EXCEPT !.cmdlines = {<<"a", "x">>, <<"b", "x">>}]

NextCollect ==
    \/ CheckRules
    \/ RunGetProcesses({1, 2},
                       [OsCollect EXCEPT !.failures = SUBSET DispatchedFetches(MiniOptions)])

SpecCollect == InitCollect /\ [][NextCollect]_vars

\* ------------------------------------------ the fetches of GenerateProcess
\* The fetches GenerateProcess performs under the given options, in the order
\* of its statements.
FetchOrder(mo) ==
    <<"args", "command", "ppid">>
        \o (IF WantsCpu(mo) THEN <<"cpu">> ELSE <<>>)
        \o (IF WantsAge(mo) THEN <<"createTime">> ELSE <<>>)
        \o <<"gids", "groups">>
        \o (IF WantsMemory(mo) THEN <<"mem", "memEx", "memoryPercent">> ELSE <<>>)
        \o <<"numCtxSwitches">>
        \o (IF WantsThreads(mo) THEN <<"threads">> ELSE <<>>)
        \o (IF WantsPgid(mo) THEN <<"pgid">> ELSE <<>>)
        \o (IF WantsUsername(mo) THEN <<"username">> ELSE <<>>)
        \o (IF WantsUids(mo) THEN <<"uids">> ELSE <<>>)

\* The gopsutil process the loop of GetProcesses is at.
CurrentProc == SortByPid(unsorted)[Len(processes) + 1]

\* The return statement is reached one statement before the last fetch block.
AllFetchedBeforeLast(idx, order) == idx >= Len(order)

\* The return statement of GenerateProcess follows the last fetch block.
AllFetched(idx, order) == idx > Len(order)

\* unsorted, err = process.Processes(): the snapshot holds at least the
\* process that takes it.
ListProcesses(pids) ==
    /\ pc = "collect"
    /\ \E P \in {Q \in SUBSET pids : Q # {} /\ Cardinality(Q) <= MaxProcs} :
          \E f \in [P -> OsAttributes(MiniOptions, OsDefaults)] :
              unsorted' = {OsProcess(pid, f[pid]) : pid \in P}
    /\ pc' = "generate"
    /\ fetchIdx' = 1
    /\ UNCHANGED <<err, flagVars, sending, running, completed, processes, sorted,
                   displayOptions, predicate, treeVars, lines>>

\* go ProcessX(channel): the goroutine that sends the fetch function starts.
DispatchFetch ==
    /\ pc = "generate"
    /\ ~AllFetched(fetchIdx, FetchOrder(MiniOptions))
    /\ LET fetch == FetchOrder(MiniOptions)[fetchIdx]
       IN  /\ fetch \notin sending \cup running
           /\ sending' = sending \cup {fetch}
    /\ UNCHANGED <<pc, err, flagVars, unsorted, fetchIdx, running, completed, processes,
                   sorted, displayOptions, predicate, treeVars, lines>>

\* A receive that leaves the sending goroutine blocked on its channel.
ReceiveFetchLeavingSender ==
    /\ pc = "generate"
    /\ \E fetch \in sending \ running :
          running' = running \cup {fetch}
    /\ UNCHANGED <<pc, err, flagVars, unsorted, fetchIdx, sending, completed, processes,
                   sorted, displayOptions, predicate, treeVars, lines>>

\* <-channel meets c <- func: GenerateProcess receives the fetch function, the
\* goroutine returns, and GenerateProcess calls the function.
ReceiveFetch ==
    /\ pc = "generate"
    /\ \E fetch \in sending :
          /\ sending' = sending \ {fetch}
          /\ running' = running \cup {fetch}
    /\ UNCHANGED <<pc, err, flagVars, unsorted, fetchIdx, completed, processes, sorted,
                   displayOptions, predicate, treeVars, lines>>

\* The fetch function returns; the local variable gets its value or its
\* default, and GenerateProcess goes on to the next fetch block.
FinishFetch ==
    /\ pc = "generate"
    /\ \E fetch \in running :
          /\ running' = running \ {fetch}
          /\ completed' = completed \cup {fetch}
    /\ fetchIdx' = fetchIdx + 1
    /\ UNCHANGED <<pc, err, flagVars, unsorted, sending, processes, sorted,
                   displayOptions, predicate, treeVars, lines>>

\* return Process{...} and *processes = append(*processes, ...); after the
\* last process GetProcesses returns.
AppendProcess ==
    /\ pc = "generate"
    /\ AllFetched(fetchIdx, FetchOrder(MiniOptions))
    /\ processes' = Append(processes, GenerateProcess(CurrentProc, MiniOptions))
    /\ fetchIdx' = 1
    /\ completed' = {}
    /\ pc' = IF Len(processes') = Cardinality(unsorted) THEN "order" ELSE "generate"
    /\ UNCHANGED <<err, flagVars, unsorted, sending, running, sorted, displayOptions,
                   predicate, treeVars, lines>>

\* The run, fetch by fetch, with the CPU or the memory attributes requested
\* or neither, on snapshots of one or two processes.
InitFetch ==
    /\ InitRunState
    /\ changedLevel = FALSE
    /\ flagLevel = 0
    /\ flagOrderBy = ""
    /\ flagColorAttr = ""
    /\ flagContains = ""
    /\ flagCompactNot = FALSE
    /\ flagAge = FALSE
    /\ flagThreads = FALSE
    /\ flagShowOwner = FALSE
    /\ flagShowPIDs = FALSE
    /\ flagShowUserTransitions = FALSE
    /\ NoStyleFlags
    /\ \E wanted \in {"", "cpu", "mem"} :
          /\ flagCpu = (wanted = "cpu")
          /\ flagMemory = (wanted = "mem")

NextFetch ==
    \/ CheckRules
    \/ ListProcesses({1, 2})
    \/ DispatchFetch
    \/ ReceiveFetch
    \/ FinishFetch
    \/ AppendProcess
    \/ OrderProcesses
    \/ BuildDisplayOptions
    \/ RunNewProcessTree
    \/ RunMarkProcesses
    \/ RunDropUnmarked
    \/ RunInitCompactMode
    \/ RunPrintTree

SpecFetch == InitFetch /\ [][NextFetch]_vars

\* The Go scheduler runs every goroutine that can take a step.
SpecFetchLive == SpecFetch /\ WF_vars(NextFetch)

\* The run from the rules to the printed lines, with every --level, with and
\* without compact mode and --show-pids, under the identity filter, on
\* snapshots of at most MaxProcs processes of two commands.
InitPrint ==
    /\ pc = "rules"
    /\ err = ""
    /\ flagUsername = <<>>
    /\ unsorted = {}
    /\ fetchIdx = 1
    /\ sending = {}
    /\ running = {}
    /\ completed = {}
    /\ lines = <<>>
    /\ processes = <<>>
    /\ sorted = <<>>
    /\ displayOptions = NoDisplayOptions
    /\ predicate = 1..MaxProcs
    /\ Nodes = <<>>
    /\ ProcessGroups = NoGroups
    /\ skipProcesses = {}
    /\ changedLevel \in BOOLEAN
    /\ flagLevel \in IF changedLevel THEN (-1)..2 ELSE {0}
    /\ flagOrderBy = ""
    /\ flagColorAttr = ""
    /\ flagContains = ""
    /\ flagCompactNot \in BOOLEAN
    /\ flagShowPIDs \in IF flagCompactNot THEN {FALSE} ELSE BOOLEAN
    /\ flagAge = FALSE
    /\ flagCpu = FALSE
    /\ flagMemory = FALSE
    /\ flagThreads = FALSE
    /\ flagShowOwner = FALSE
    /\ flagShowUserTransitions = FALSE
    /\ NoStyleFlags

\* The processes of the printed runs: any lower PID as the parent, a command
\* with a directory and one without.
OsPrint == [OsDefaults EXCEPT !.ppids = 0..(MaxProcs - 1), !.exes = {"/bin/a", "b"}]

NextPrint ==
    \/ CheckRules
    \/ RunGetProcesses(1..MaxProcs, OsPrint)
    \/ OrderProcesses
    \/ BuildDisplayOptions
    \/ RunNewProcessTree
    \/ RunMarkProcesses
    \/ RunDropUnmarked
    \/ RunInitCompactMode
    \/ RunPrintTree

SpecPrint == InitPrint /\ [][NextPrint]_vars

\* The whole run, from the rules to the printed lines, without --order-by
\* and ordered by PID.
StageOrderKeys == {"", "pid"}

InitStages ==
    /\ pc = "rules"
    /\ err = ""
    /\ flagUsername = <<>>
    /\ unsorted = {}
    /\ fetchIdx = 1
    /\ sending = {}
    /\ running = {}
    /\ completed = {}
    /\ lines = <<>>
    /\ processes = <<>>
    /\ sorted = <<>>
    /\ displayOptions = NoDisplayOptions
    /\ predicate = 1..MaxProcs
    /\ Nodes = <<>>
    /\ ProcessGroups = NoGroups
    /\ skipProcesses = {}
    /\ changedLevel = FALSE
    /\ flagLevel = 0
    /\ flagOrderBy \in StageOrderKeys
    /\ flagColorAttr = ""
    /\ flagContains = ""
    /\ flagCompactNot \in BOOLEAN
    /\ flagShowPIDs = FALSE
    /\ flagAge = FALSE
    /\ flagCpu = FALSE
    /\ flagMemory = FALSE
    /\ flagThreads = FALSE
    /\ flagShowOwner = FALSE
    /\ flagShowUserTransitions = FALSE
    /\ NoStyleFlags

SpecStages == InitStages /\ [][NextPrint]_vars

\* The run with every sort key, on snapshots of at most MaxProcs processes
\* with PIDs from 0 (the kernel's own process, where the OS lists it).
InitOrder ==
    /\ InitRunState
    /\ changedLevel = FALSE
    /\ flagLevel = 0
    /\ flagOrderBy \in validOrderBy \cup {""}
    /\ flagColorAttr = ""
    /\ flagContains = ""
    /\ flagCompactNot = FALSE
    /\ flagAge = FALSE
    /\ flagCpu = FALSE
    /\ flagMemory = FALSE
    /\ flagThreads = FALSE
    /\ flagShowOwner = FALSE
    /\ flagShowPIDs = FALSE
    /\ flagShowUserTransitions = FALSE
    /\ NoStyleFlags

NextOrder ==
    \/ CheckRules
    \/ RunGetProcesses(0..MaxProcs, OsDefaults)
    \/ OrderProcesses
    \/ BuildDisplayOptions

SpecOrder == InitOrder /\ [][NextOrder]_vars

\* The run with every combination of the color, glyph, transition, user and
\* exclude-root flags and valid and invalid filter values, up to the first
\* step of the tree work, on snapshots of PID 1 alone or of no process.
InitRules ==
    /\ InitRunState
    /\ changedLevel \in BOOLEAN
    /\ flagLevel \in IF changedLevel THEN (-1)..2 ELSE {0}
    /\ flagOrderBy \in {"", "pid", "bogus"}
    /\ flagColorAttr \in {"", "age", "bogus"}
    /\ flagContains = ""
    /\ flagCompactNot = FALSE
    /\ flagAge = FALSE
    /\ flagCpu = FALSE
    /\ flagMemory = FALSE
    /\ flagThreads = FALSE
    /\ flagShowOwner = FALSE
    /\ flagShowPIDs = FALSE
    /\ flagShowUserTransitions \in BOOLEAN
    /\ changedUser \in BOOLEAN
    /\ flagExcludeRoot \in BOOLEAN
    /\ flagColor \in BOOLEAN
    /\ flagRainbow \in BOOLEAN
    /\ flagColorScheme \in {"", "linux", "bogus"}
    /\ flagIBM850 \in BOOLEAN
    /\ flagUTF8 \in BOOLEAN
    /\ flagVT100 \in BOOLEAN
    /\ flagShowUIDTransitions \in BOOLEAN
    /\ flagShowPGIDs = FALSE
    /\ flagShowPGLs = FALSE

NextRules ==
    \/ CheckRules
    \/ RunGetProcesses({1}, OsDefaults)
    \/ OrderProcesses
    \/ BuildDisplayOptions
    \/ RunNewProcessTree

SpecRules == InitRules /\ [][NextRules]_vars

\* ===================================================================== claims
\* The proper ancestors of node i in a node table.
RECURSIVE NodeAncestorsUpTo(_, _, _)
NodeAncestorsUpTo(nodes, i, fuel) ==
    LET p == nodes[i].Parent
    IN  IF p = None \/ fuel = 0 THEN {}
        ELSE {p} \cup NodeAncestorsUpTo(nodes, p, fuel - 1)

NodeAncestors(nodes, i) == NodeAncestorsUpTo(nodes, i, Len(nodes))

PidsOf(nodes, idxs) == [k \in 1..Len(idxs) |-> nodes[idxs[k]].PID]

\* The PID of the parent of node i, or None for a root.
ParentPid(nodes, i) ==
    IF nodes[i].Parent = None THEN None ELSE nodes[nodes[i].Parent].PID

\* C1: ancestor preservation.  After MarkProcesses, every ancestor of a marked
\* node is marked, and a node is marked exactly when the filter predicate holds
\* for it or for one of its descendants.
C1_AncestorPreservation ==
    pc = "drop" =>
        \A i \in 1..Len(Nodes) :
            /\ Nodes[i].Marked =>
                   \A a \in NodeAncestors(Nodes, i) : Nodes[a].Marked
            /\ Nodes[i].Marked <=>
                   \/ i \in predicate
                   \/ \E j \in predicate : i \in NodeAncestors(Nodes, j)

\* C1 witness: a matching node whose parent fails the predicate itself
\* and is marked, next to a node that stays unmarked.
C1_Witness ==
    /\ pc = "drop"
    /\ \E i \in predicate :
          /\ Nodes[i].Parent # None
          /\ Nodes[i].Parent \notin predicate
          /\ Nodes[Nodes[i].Parent].Marked
    /\ \E u \in 1..Len(Nodes) : ~Nodes[u].Marked

\* C2: after DropUnmarked the node table holds exactly the nodes that were
\* marked, in a dense index range, no unmarked node remains, and the parent of
\* every remaining node is the remaining node its ppid names (its whole
\* ancestor chain was marked and survived).
C2_PruneKeepsMarked ==
    [][pc = "drop" =>
          /\ PidsOf(Nodes', Iota(Len(Nodes'))) = PidsOf(Nodes, Kept(Nodes))
          /\ \A k \in 1..Len(Nodes') :
                /\ Nodes'[k].Marked
                /\ \A a \in NodeAncestors(Nodes', k) : Nodes'[a].Marked
                /\ ParentPid(Nodes', k) = ParentPid(Nodes, Kept(Nodes)[k])
      ]_vars

\* C2 witness: the pruned table lost a node and keeps a matching node under a
\* parent that does not match the filter itself.
C2_Witness ==
    /\ pc = "group"
    /\ Len(Nodes) < Len(processes)
    /\ \E k \in 1..Len(Nodes) :
          /\ Nodes[k].Parent # None
          /\ GetPidIndex(processes, Nodes[k].PID) \in predicate
          /\ GetPidIndex(processes, Nodes[Nodes[k].Parent].PID) \notin predicate

\* C3: prune order preservation.  Under every surviving parent (and under the
\* forest root) the sibling order after pruning is the order those nodes had
\* before pruning.
C3_PruneOrderPreserved ==
    [][pc = "drop" =>
          \A q \in {None} \cup Range(Kept(Nodes)) :
              PidsOf(Nodes', SiblingList(Nodes', NewIndex(Nodes, q)))
                = PidsOf(Nodes, SelectSeq(SiblingList(Nodes, q),
                                          LAMBDA i : Nodes[i].Marked))
      ]_vars

\* C3 witness: a sibling list that lost a node to pruning and keeps at least
\* two, the pruned one not being the last.
C3_Witness ==
    /\ pc = "group"
    /\ \E q \in {None} \cup (1..Len(Nodes)) :
          LET after  == PidsOf(Nodes, SiblingList(Nodes, q))
              before == IF q = None
                        THEN PidsOf(processes, SelectSeq(Iota(Len(processes)),
                                 LAMBDA i : ParentIndex(processes, i) = None))
                        ELSE PidsOf(processes,
                                 ChildList(processes,
                                           GetPidIndex(processes, Nodes[q].PID)))
          IN  /\ Len(after) >= 2
              /\ Len(before) > Len(after)
              /\ before[Len(before)] = after[Len(after)]


\* ------------------------------------------------------- claims on grouping
RECURSIVE SumOver(_, _)
SumOver(S, f) ==
    IF S = {} THEN 0
    ELSE LET x == CHOOSE x \in S : TRUE IN f[x] + SumOver(S \ {x}, f)

GroupKeys == DOMAIN ProcessGroups

Members(k) == Range(ProcessGroups[k].Indices)

\* The places <<key, position>> of node i in the member lists of the groups.
PlacesOf(i) ==
    UNION {{<<k, j>> : j \in {j \in 1..Len(ProcessGroups[k].Indices) :
                                 ProcessGroups[k].Indices[j] = i}} :
           k \in GroupKeys}

\* The groups of a sibling list: the groups that hold a node of the list.
GroupsOfSiblings(p) ==
    {k \in GroupKeys : Members(k) \cap Range(SiblingList(Nodes, p)) # {}}

\* C4: grouping is a partition.  After InitCompactMode every node is in exactly
\* one group's member list, for every sibling list the counts of its groups sum
\* to the number of siblings, and the skipped nodes number the nodes minus the
\* groups.
C4_GroupingPartition ==
    pc = "print" =>
        /\ \A i \in 1..Len(Nodes) : Cardinality(PlacesOf(i)) = 1
        /\ \A p \in {None} \cup (1..Len(Nodes)) :
              SumOver(GroupsOfSiblings(p), [k \in GroupKeys |-> ProcessGroups[k].Count])
                = Len(SiblingList(Nodes, p))
        /\ Cardinality(skipProcesses) = Len(Nodes) - Cardinality(GroupKeys)

\* C5: group keys are unique per parent in the tree.  Two siblings (roots being
\* siblings under the forest root) with equal signature and owner are in the
\* same group, and all members of one group are siblings.
C5_GroupKeysUniquePerParent ==
    pc = "print" =>
        /\ \A i, j \in 1..Len(Nodes) :
              ( /\ Nodes[i].Parent = Nodes[j].Parent
                /\ Nodes[i].Signature = Nodes[j].Signature
                /\ Nodes[i].Username = Nodes[j].Username )
              => \E k \in GroupKeys : {i, j} \subseteq Members(k)
        /\ \A k \in GroupKeys : \A i, j \in Members(k) :
              Nodes[i].Parent = Nodes[j].Parent

\* C6: every group has Count = len(Indices) and FirstIndex = Indices[0], and
\* its signature (its key in the map) and owner are those of every member.
C6_GroupShape ==
    pc = "print" =>
        \A k \in GroupKeys :
            LET g == ProcessGroups[k]
            IN  /\ g.Count = Len(g.Indices)
                /\ g.FirstIndex = g.Indices[1]
                /\ \A m \in Members(k) :
                      /\ Nodes[m].Signature = k[2]
                      /\ Nodes[m].Username = g.Owner
                      /\ Nodes[m].Username = k[3]

\* C6 witness: grouping made a group of at least two members.
C6_Witness ==
    /\ pc = "print"
    /\ \E k \in GroupKeys : ProcessGroups[k].Count >= 2

\* The position of node i in list s (0 when absent).
PositionIn(s, i) ==
    IF i \in Range(s) THEN MinOf({k \in 1..Len(s) : s[k] = i}) ELSE 0

\* C7: ShouldSkipProcess holds exactly for the members of a group other than
\* its FirstIndex, and FirstIndex is the lowest-index member, the first of the
\* group in sibling order.
C7_FirstIsRepresentative ==
    pc = "print" =>
        /\ \A i \in 1..Len(Nodes) :
              ShouldSkipProcess(i) <=>
                  \E k \in GroupKeys :
                      i \in Members(k) /\ i # ProcessGroups[k].FirstIndex
        /\ \A k \in GroupKeys :
              LET first == ProcessGroups[k].FirstIndex
                  sibs  == SiblingList(Nodes, Nodes[first].Parent)
              IN  /\ first \in Members(k)
                  /\ \A m \in Members(k) :
                        /\ first <= m
                        /\ m \in Range(sibs) =>
                              PositionIn(sibs, first) <= PositionIn(sibs, m)

\* C7 witness: a group of two siblings, the later one skipped, beside a node
\* that is alone in its group and is not skipped.
C7_Witness ==
    /\ pc = "print"
    /\ \E k \in GroupKeys :
          /\ ProcessGroups[k].Count >= 2
          /\ \E m \in Members(k) :
                /\ m # ProcessGroups[k].FirstIndex
                /\ ShouldSkipProcess(m)
                /\ Nodes[m].Parent = Nodes[ProcessGroups[k].FirstIndex].Parent
    /\ \E k \in GroupKeys :
          /\ ProcessGroups[k].Count = 1
          /\ ~ShouldSkipProcess(ProcessGroups[k].FirstIndex)


\* ---------------------------------------------- claims on the run command
\* C8: compact mode is in effect only when neither --color-attr nor
\* --contains is active: with either of them the DisplayOptions handed to the
\* tree have CompactMode false, whatever --compact-not was.
C8_CompactOnlyWithoutFilters ==
    /\ displayOptions.CompactMode =>
           displayOptions.ColorAttr = "" /\ displayOptions.Contains = ""
    /\ pc = "tree" =>
           /\ displayOptions.ColorAttr = flagColorAttr
           /\ displayOptions.Contains = flagContains
           /\ (flagColorAttr # "" \/ flagContains # "") => ~displayOptions.CompactMode

\* C8 witness: options built with a substring filter and no color attribute,
\* compact mode off.
C8_Witness ==
    /\ pc = "tree"
    /\ displayOptions.Contains # ""
    /\ displayOptions.ColorAttr = ""
    /\ ~displayOptions.CompactMode

\* The value of the sort key of a record.
KeyOf(orderBy, p) ==
    CASE orderBy = "age"     -> p.Age
      [] orderBy = "cpu"     -> p.CPUPercent
      [] orderBy = "mem"     -> p.MemoryInfo.RSS
      [] orderBy = "pid"     -> p.PID
      [] orderBy = "threads" -> p.NumThreads
      [] orderBy = "user"    -> StringRank(p.Username)

IsAscending(orderBy, procs) ==
    \A i, j \in 1..Len(procs) :
        i < j => KeyOf(orderBy, procs[i]) <= KeyOf(orderBy, procs[j])

\* C10: ascending order.  For every valid sort key the records other than
\* PID 1 are in non-decreasing order of the key, and so are the children of
\* every parent (the records that name it as their parent), PID 1 aside.
C10_AscendingOrder ==
    (pc \in {"options", "tree"} /\ flagOrderBy \in validOrderBy) =>
        /\ IsAscending(flagOrderBy, SelectSeq(processes, LAMBDA p : p.PID # 1))
        /\ \A q \in {processes[i].PPID : i \in 1..Len(processes)} :
              IsAscending(flagOrderBy,
                          SelectSeq(processes, LAMBDA p : p.PPID = q /\ p.PID # 1))

\* C10 witness: the sort moved a record with a larger PID and a smaller key
\* ahead of another, both children of PID 1.
C10_Witness ==
    /\ pc = "tree"
    /\ flagOrderBy \in validOrderBy
    /\ \E i, j \in 2..Len(processes) :
          /\ i < j
          /\ processes[i].PID > processes[j].PID
          /\ processes[i].PPID = 1
          /\ processes[j].PPID = 1
          /\ KeyOf(flagOrderBy, processes[i]) < KeyOf(flagOrderBy, processes[j])

\* ------------------------------------------------------ claims on stability
\* C11: the sibling sort is stable.  Two records other than PID 1 with equal
\* value of the sort key keep the relative order of the input sequence
\* (PID-ascending) after the ordering.
C11_SortStable ==
    (pc \in {"options", "tree"} /\ flagOrderBy \in validOrderBy) =>
        \A i, j \in 2..Len(processes) :
            ( /\ i < j
              /\ KeyOf(flagOrderBy, processes[i]) = KeyOf(flagOrderBy, processes[j]) )
            => processes[i].PID < processes[j].PID

\* ------------------------------------------------- claims on the flag rules
\* The number of the conditions of a set that hold.
CountTrue(conds) == Cardinality({i \in 1..Len(conds) : conds[i]})

\* The flags select mutually exclusive options.
ConfigConflict ==
    \/ changedUser /\ flagExcludeRoot
    \/ CountTrue(<<flagColor, flagRainbow, flagColorAttr # "">>) > 1
    \/ flagColorScheme # "" /\ (flagColorAttr # "" \/ flagRainbow)
    \/ CountTrue(<<flagIBM850, flagUTF8, flagVT100>>) > 1
    \/ flagShowUIDTransitions /\ flagShowUserTransitions

\* C12: ConfigConflict.  A run whose flags select mutually exclusive options
\* returns an error before any process is collected and before any tree
\* work; the DisplayOptions that reach the tree builder have at most one of
\* ColorizeOutput, RainbowOutput and a non-empty ColorAttr.
C12_ConfigConflict ==
    /\ ConfigConflict =>
           /\ pc \in {"rules", "done"}
           /\ pc = "done" => err # ""
           /\ processes = <<>>
           /\ Nodes = <<>>
    /\ pc \in {"tree", "mark"} =>
           CountTrue(<<displayOptions.ColorizeOutput, displayOptions.RainbowOutput,
                       displayOptions.ColorAttr # "">>) <= 1

\* C12 witness: a run with a valid --color-scheme and --rainbow, rejected by
\* rule 8 alone.
C12_Witness ==
    /\ pc = "done"
    /\ err = "--color-scheme cannot be used with --color-attr or --rainbow"
    /\ flagColorScheme \in validColorSchemes
    /\ flagRainbow
    /\ ~flagColor
    /\ processes = <<>>

\* An unrecognized sort key, color attribute or color scheme name is given.
InvalidFilterValue ==
    \/ flagOrderBy # "" /\ flagOrderBy \notin validOrderBy
    \/ flagColorAttr # "" /\ flagColorAttr \notin validAttributes
    \/ flagColorScheme # "" /\ flagColorScheme \notin validColorSchemes

LookupContract(procs, pid) ==
    LET r    == GetProcessByPid(procs, pid)
        hits == {i \in 1..Len(procs) : procs[i].PID = pid}
    IN  /\ r.ok <=> hits # {}
        /\ r.ok => r.proc = procs[MinOf(hits)]

\* C14: LookupFailure.  A PID lookup that finds no record yields an error and
\* never a record, and a run whose lookup of the root PID fails ends by
\* returning an error, with no tree built.
C14_LookupFailure ==
    /\ \A pid \in (-1)..(MaxProcs + 1) : LookupContract(processes, pid)
    /\ ( /\ flagOrderBy \in validOrderBy
         /\ pc \notin {"rules", "collect", "order"}
         /\ ~GetProcessByPid(processes, 1).ok )
       => (pc = "done" /\ err # "" /\ Nodes = <<>>)

\* C15: collection never aborts on an attribute failure: whatever subset of
\* the dispatched fetches of a process fails, GetProcesses appends one record
\* per process of the snapshot, in which each failed attribute holds its
\* default (args [], ppid -1, cpuPercent -1, createTime -1, memoryPercent -1,
\* numThreads -1, pgid -1, username "?", uids []) and every other dispatched
\* attribute holds the value of its fetch (the command line less a leading
\* word equal to the command, the creation time in seconds).
FetchedOrDefault(p, fetch, held, out, default) ==
    held = IF fetch \in p.failed THEN default ELSE out

RecordOf(p, r, mo) ==
    /\ r.PID = p.Pid
    /\ FetchedOrDefault(p, "args", r.Args, StripCommand(p.Cmdline, r.Command), <<>>)
    /\ FetchedOrDefault(p, "ppid", r.PPID, p.Ppid, -1)
    /\ WantsCpu(mo) => FetchedOrDefault(p, "cpu", r.CPUPercent, p.CPUPercent, -1)
    /\ WantsAge(mo) => FetchedOrDefault(p, "createTime", r.CreateTime, p.CreateTime \div 1000, -1)
    /\ WantsMemory(mo) => FetchedOrDefault(p, "memoryPercent", r.MemoryPercent, p.MemoryPercent, -1)
    /\ WantsMemory(mo) => FetchedOrDefault(p, "mem", r.MemoryInfo.RSS, p.RSS, 0)
    /\ WantsThreads(mo) => FetchedOrDefault(p, "threads", r.NumThreads, p.NumThreads, -1)
    /\ WantsPgid(mo) => FetchedOrDefault(p, "pgid", r.PGID, p.Pgid, -1)
    /\ WantsUsername(mo) => FetchedOrDefault(p, "username", r.Username, p.Username, "?")
    /\ WantsUids(mo) => FetchedOrDefault(p, "uids", r.UIDs, p.Uids, <<>>)

C15_CollectionNeverAborts ==
    pc = "order" =>
        /\ Len(processes) = Cardinality(unsorted)
        /\ \A p \in unsorted :
              \E i \in 1..Len(processes) : RecordOf(p, processes[i], MiniOptions)

\* C15 witness: two processes were collected; an optional fetch of the first
\* failed, every fetch of the second succeeded and its record holds the
\* fetched arguments.
C15_Witness ==
    /\ pc = "order"
    /\ Len(processes) = 2
    /\ \E p, q \in unsorted :
          /\ p.Pid < q.Pid
          /\ p.failed \ AlwaysFetched # {}
          /\ q.failed = {}
          /\ q.Cmdline = <<"a", "x">>
          /\ processes[2].Args = <<"x">>

\* C16: join barrier: the record of a process is appended only when every
\* fetch dispatched for it has completed and none is pending or running, and
\* the node table is built only when that holds for every process of the
\* snapshot.
NoFetchOutstanding == sending = {} /\ running = {}

C16_JoinBarrier ==
    [][/\ Len(processes') > Len(processes) =>
            /\ NoFetchOutstanding
            /\ completed = Range(FetchOrder(MiniOptions))
       /\ Nodes' # Nodes =>
            /\ NoFetchOutstanding
            /\ Len(processes) = Cardinality(unsorted)]_vars

\* C16 witness: the node table of a snapshot of two processes, collected with
\* the three memory fetches dispatched, has been built.
C16_Witness ==
    /\ Len(Nodes) = 2
    /\ Cardinality(unsorted) = 2
    /\ "memoryPercent" \in Range(FetchOrder(MiniOptions))

\* The fetch functions are called one after the other: no two are in progress
\* at the same time, and no fetch is dispatched while another is in progress.
FetchesOneAtATime == Cardinality(sending \cup running) <= 1

\* C17: GenerateProcess collects the attributes of a process concurrently:
\* in a run that collects a process, at some time the fetches of two different
\* attributes of that process are in progress together.
C17_ConcurrentFetches == <>(\E a, b \in running : a # b)

\* The depth of node i from its display root, by its parent links.
RECURSIVE DepthOf(_, _)
DepthOf(nodes, i) ==
    IF nodes[i].Parent = None THEN 0 ELSE 1 + DepthOf(nodes, nodes[i].Parent)

\* Node i or one of its ancestors is skipped by compact mode.
RECURSIVE UnderSkipped(_, _, _)
UnderSkipped(nodes, skip, i) ==
    \/ i \in skip
    \/ nodes[i].Parent # None /\ UnderSkipped(nodes, skip, nodes[i].Parent)

PrintedNodes == {lines[k].index : k \in 1..Len(lines)}

\* The options have been built and the run has not ended with an error.
TreeWorkBegun ==
    \/ pc = "tree" \/ pc = "mark" \/ pc = "drop" \/ pc = "group" \/ pc = "print"
    \/ pc = "done" /\ err = ""

\* C18: depth limiting.  The MaxDepth handed to the tree is at least 1; no
\* printed line belongs to a node deeper than MaxDepth below its display root;
\* a node at the cutoff (or above it) is printed unless compact mode folds it
\* or an ancestor into a group, and a node below the cutoff is not printed.
C18_DepthLimiting ==
    /\ TreeWorkBegun => displayOptions.MaxDepth >= 1
    /\ (pc = "done" /\ err = "") =>
          /\ \A k \in 1..Len(lines) :
                /\ lines[k].depth = DepthOf(Nodes, lines[k].index)
                /\ lines[k].depth <= displayOptions.MaxDepth
          /\ \A i \in 1..Len(Nodes) :
                i \in PrintedNodes <=>
                    /\ DepthOf(Nodes, i) <= displayOptions.MaxDepth
                    /\ ~(displayOptions.CompactMode /\ UnderSkipped(Nodes, skipProcesses, i))

\* C18 witness: with --level 1 a node at depth 1 was printed and its child
\* was not.
C18_Witness ==
    /\ pc = "done"
    /\ changedLevel
    /\ displayOptions.MaxDepth = 1
    /\ \E i \in PrintedNodes :
          /\ DepthOf(Nodes, i) = 1
          /\ Nodes[i].Child # None
          /\ Nodes[i].Child \notin PrintedNodes

\* The lines written for the members of group k.
LinesOf(k) == {n \in 1..Len(lines) : lines[n].index \in Members(k)}

\* Node i is within the depth limit and neither it nor an ancestor is skipped.
Visible(i) ==
    /\ DepthOf(Nodes, i) <= displayOptions.MaxDepth
    /\ ~UnderSkipped(Nodes, skipProcesses, i)

\* "pid1,pid2,...": the PIDs of the nodes of a member list, in member order.
RECURSIVE CommaList(_)
CommaList(indices) ==
    IF Len(indices) = 1 THEN ToString(Nodes[indices[1]].PID)
    ELSE CommaList(SubSeq(indices, 1, Len(indices) - 1)) \o ","
            \o ToString(Nodes[indices[Len(indices)]].PID)

\* The base names of the commands of the model.
BaseName(command) == IF command = "/bin/a" THEN "a" ELSE command

\* C19: compact rendering.  In compact mode a group is written as exactly one
\* line (none when its first member is below the depth limit or under a
\* folded node), the line of its first member; for a count n > 1 the command
\* of the line is "n*[basename(command)]", followed by " (pid1,pid2,...)" with
\* the member PIDs in member order when PIDs are shown, and for a count of 1
\* it is the unmodified command.
C19_CompactRendering ==
    (pc = "done" /\ err = "" /\ displayOptions.CompactMode) =>
        \A k \in GroupKeys :
            LET g == ProcessGroups[k]
                i == g.FirstIndex
            IN  /\ Cardinality(LinesOf(k)) = IF Visible(i) THEN 1 ELSE 0
                /\ \A n \in LinesOf(k) :
                      /\ lines[n].index = i
                      /\ lines[n].command =
                            IF g.Count > 1
                            THEN ToString(g.Count) \o "*[" \o BaseName(Nodes[i].Command) \o "]"
                                    \o (IF displayOptions.ShowPIDs
                                        THEN " (" \o CommaList(g.Indices) \o ")" ELSE "")
                            ELSE Nodes[i].Command

\* C19 witness: two children of PID 1 with the command /bin/a were written as
\* the single line 2*[a] (2,3), and a group of one as /bin/a.
C19_Witness ==
    /\ pc = "done"
    /\ displayOptions.CompactMode
    /\ \E n, m \in 1..Len(lines) :
          /\ lines[n].command = "2*[a] (2,3)"
          /\ lines[n].depth = 1
          /\ lines[m].command = "/bin/a"

\* The largest of the ages of the members of a group (ages are not negative).
MaxAgeOf(indices) ==
    CHOOSE a \in {Nodes[i].Age : i \in Range(indices)} :
        \A i \in Range(indices) : Nodes[i].Age <= a

\* The sum of f over the members of a group.
RECURSIVE SumOfMembers(_, _)
SumOfMembers(indices, f) ==
    IF indices = <<>> THEN 0 ELSE f[indices[1]] + SumOfMembers(Tail(indices), f)

NodeCpu == [i \in 1..Len(Nodes) |-> Nodes[i].CPUPercent]

NodeRSS == [i \in 1..Len(Nodes) |-> Nodes[i].MemoryInfo.RSS]

NodeThreads == [i \in 1..Len(Nodes) |-> Nodes[i].NumThreads]

C21_CompactionIdempotence ==
    [][(pc = "print" /\ pc' = "regrouped") =>
            /\ ProcessGroups' = ProcessGroups
            /\ skipProcesses' = skipProcesses]_vars


\* The nodes of the table that have key k, in table order.
NodesWithKey(k) ==
    SelectSeq(Iota(Len(Nodes)), LAMBDA i : GroupKey(Nodes, i) = k)

\* C22: grouping determinism.  The groups and the skip set are a function of
\* the node table and its order alone: there is one group per key that occurs
\* in the table, its members are the nodes with that key in table order, its
\* representative is the first of them and the skip set holds the others, so
\* two passes over the same table in the same order give the same result.
C22_GroupingDeterminism ==
    pc = "print" =>
        /\ GroupKeys = {GroupKey(Nodes, i) : i \in 1..Len(Nodes)}
        /\ \A k \in GroupKeys :
              /\ ProcessGroups[k].Indices = NodesWithKey(k)
              /\ ProcessGroups[k].FirstIndex = Head(NodesWithKey(k))
        /\ skipProcesses =
              {i \in 1..Len(Nodes) : i # Head(NodesWithKey(GroupKey(Nodes, i)))}

\* C22 witness: a group whose two members are not neighbours in the table.
C22_Witness ==
    /\ pc = "print"
    /\ \E k \in GroupKeys :
          /\ ProcessGroups[k].Indices = <<1, 3>>
          /\ skipProcesses = {3}


\* The shape of the subtree of node i: its signature and owner and the shapes
\* of its children in sibling order.
RECURSIVE SubtreeShape(_, _)
RECURSIVE ShapesOf(_, _)
SubtreeShape(nodes, i) ==
    <<nodes[i].Signature, nodes[i].Username, ShapesOf(nodes, SiblingList(nodes, i))>>

ShapesOf(nodes, siblings) ==
    IF siblings = <<>> THEN <<>>
    ELSE <<SubtreeShape(nodes, siblings[1])>> \o ShapesOf(nodes, Tail(siblings))

\* C23: compact mode collapses only structurally identical sibling subtrees.
\* Two siblings that are members of one group have identical subtrees of
\* descendants, so every
\* descendant of a skipped member has an identical counterpart under the
\* representative.
C23_IdenticalSubtreesOnly ==
    pc = "print" =>
        \A k \in GroupKeys : \A i, j \in Members(k) :
            Nodes[i].Parent = Nodes[j].Parent =>
                SubtreeShape(Nodes, i) = SubtreeShape(Nodes, j)


\* The work of the stages that is visible in the state.
CollectorDone == Len(processes) = Cardinality(unsorted)

TreeBuilt == Len(Nodes) = Len(processes) /\ \A i \in 1..Len(Nodes) : Nodes[i].PID = processes[i].PID

NothingMarked == \A i \in 1..Len(Nodes) : ~Nodes[i].Marked

Pruned == \A i \in 1..Len(Nodes) : Nodes[i].Marked

\* The steps of the stages from the Marker on: the Marker runs on the whole
\* unmarked tree, the Pruner on the marked tree before any grouping, the
\* Grouper on the pruned tree before anything is printed, and the Renderer
\* last.
LaterStagesInOrder ==
    /\ (pc = "mark" /\ pc' = "drop") => (TreeBuilt /\ NothingMarked)
    /\ (pc = "drop" /\ pc' = "group") =>
          (Len(Nodes) = Len(processes) /\ ProcessGroups = NoGroups /\ Pruned')
    /\ (pc = "group" /\ pc' = "print") => (Pruned /\ Nodes' = Nodes /\ lines = <<>>)
    /\ (pc = "print" /\ pc' = "done") => (skipProcesses' = skipProcesses /\ Nodes' = Nodes)

RECURSIVE NodeReachesRoot(_, _, _)
NodeReachesRoot(nodes, i, fuel) ==
    \/ nodes[i].Parent = None
    \/ fuel > 0 /\ NodeReachesRoot(nodes, nodes[i].Parent, fuel - 1)

\* The nodes the walks reach from the roots by Child and Sister.
RECURSIVE ReachedFrom(_, _)
ReachedFrom(nodes, siblings) ==
    IF siblings = <<>> THEN {}
    ELSE {siblings[1]} \cup ReachedFrom(nodes, SiblingList(nodes, siblings[1]))
                       \cup ReachedFrom(nodes, Tail(siblings))

\* C25: termination of tree walks.  For every assignment of ppid values the
\* tree builder yields a forest (every node reaches a root by its parent
\* links and is reached from a root by the child and sister links), and the
\* rendering walk visits each node at most once.
C25_WalksTerminate ==
    /\ pc = "mark" =>
          /\ \A i \in 1..Len(Nodes) : NodeReachesRoot(Nodes, i, Len(Nodes))
          /\ ReachedFrom(Nodes, RootList(Nodes)) = 1..Len(Nodes)
    /\ pc = "done" =>
          \A j, k \in 1..Len(lines) : lines[j].index = lines[k].index => j = k


\* The groups node i is the first member of.
GroupsLedBy(i) ==
    {k \in GroupKeys : i \in Members(k) /\ ProcessGroups[k].Indices[1] = i}

\* C26: GetProcessCount(i) returns the count, the PIDs of all members (as many
\* as the count, in member order) and the aggregates of the group when node i
\* is the first member of its group; for every other node it returns count 1,
\* no PIDs and zero aggregates.
C26_GetProcessCount ==
    pc = "print" =>
        \A i \in 1..Len(Nodes) :
            LET got == GetProcessCount(Nodes, ProcessGroups, i)
            IN  /\ \A k \in GroupsLedBy(i) :
                      LET g == ProcessGroups[k]
                      IN  /\ got.count = g.Count
                          /\ Len(got.groupPIDs) = got.count
                          /\ \A j \in 1..Len(g.Indices) :
                                got.groupPIDs[j] = Nodes[g.Indices[j]].PID
                          /\ got.age = g.Age
                          /\ got.cpuPercent = g.CPUPercent
                          /\ got.memoryUsage = g.MemoryUsage
                          /\ got.numThreads = g.NumThreads
                /\ GroupsLedBy(i) = {} =>
                      /\ got.count = 1
                      /\ got.groupPIDs = <<>>
                      /\ got.age = 0
                      /\ got.cpuPercent = 0
                      /\ got.memoryUsage = 0
                      /\ got.numThreads = 0

\* C26 witness: the first member of a group of two gets both PIDs and the
\* summed CPU share, the second member gets count 1 and no PIDs.
C26_Witness ==
    /\ pc = "print"
    /\ \E k \in GroupKeys :
          LET g == ProcessGroups[k]
          IN  /\ g.Count = 2
              /\ GetProcessCount(Nodes, ProcessGroups, g.Indices[1]).groupPIDs
                    = <<Nodes[g.Indices[1]].PID, Nodes[g.Indices[2]].PID>>
              /\ GetProcessCount(Nodes, ProcessGroups, g.Indices[1]).cpuPercent > 0
              /\ GetProcessCount(Nodes, ProcessGroups, g.Indices[2]).count = 1
              /\ GetProcessCount(Nodes, ProcessGroups, g.Indices[2]).groupPIDs = <<>>


\* C27: user filter validation.  After the validation loop the allow-list
\* handed to the collection in the options (Usernames) holds exactly the
\* requested names that exist, in their original order.
C27_UserFilterValidation ==
    [][(pc = "users" /\ pc' = "collect") =>
            MiniOptions'.Usernames = SelectSeq(flagUsername, UserExists)]_vars


\* The number of places of sequence s that hold x.
CountIn(s, x) == Cardinality({j \in 1..Len(s) : s[j] = x})

\* C28: ordering keeps the snapshot intact.  For every valid sort key the
\* ordered sequence is a permutation of the collected records: it has the
\* same length, it holds every collected record exactly once, and PID 1 occurs
\* once.
C28_OrderingPermutation ==
    [][(pc = "order" /\ pc' = "options" /\ flagOrderBy \in validOrderBy) =>
            /\ Len(processes') = Len(processes)
            /\ \A i \in 1..Len(processes) : CountIn(processes', processes[i]) = 1
            /\ \A j \in 1..Len(processes') : CountIn(processes, processes'[j]) = 1
            /\ Cardinality({j \in 1..Len(processes') : processes'[j].PID = 1}) = 1]_vars

\* C28 witness: three records were ordered by a key and PID 1, collected
\* first, was handed on first with the two others behind it in some order.
C28_Witness ==
    /\ pc = "options"
    /\ flagOrderBy \in validOrderBy
    /\ Len(processes) = MaxProcs
    /\ processes[1].PID = 1
    /\ {processes[i].PID : i \in 1..Len(processes)} = 1..MaxProcs


\* The run is past the collection.
Collected ==
    pc \in {"order", "options", "tree", "mark", "drop", "group", "print"}

\* Memory info is there wherever it is dereferenced: in the sort by memory
\* and in the aggregation of a group with ShowMemoryUsage.
MemoryCollectedWhenUsed ==
    /\ (pc = "order" /\ flagOrderBy = "mem") =>
          \A i \in 1..Len(processes) : ~processes[i].MemoryInfo.nil
    /\ (pc = "group" /\ displayOptions.CompactMode /\ displayOptions.ShowMemoryUsage) =>
          \A i \in 1..Len(Nodes) : ~Nodes[i].MemoryInfo.nil

\* The owner is fetched wherever it is used: by the owner allow-list, and by
\* the grouping key in compact mode.
OwnerCollectedWhenUsed ==
    /\ (Collected /\ flagUsername # <<>>) =>
          \A i \in 1..Len(processes) : processes[i].Username # ""
    /\ (pc = "group" /\ displayOptions.CompactMode) =>
          \A i \in 1..Len(Nodes) : Nodes[i].Username # ""

\* C29: every attribute the pipeline consumes has been collected: memory info
\* is non-nil whenever it is dereferenced, and the owner has been fetched by
\* the collector whenever the allow-list or the grouping key uses it.
C29_ConsumedAttributesCollected ==
    /\ MemoryCollectedWhenUsed
    /\ OwnerCollectedWhenUsed


\* GenerateProcess is at its return statement, or is not running.
AtReturnOrOutside ==
    \/ pc # "generate"
    \/ AllFetched(fetchIdx, FetchOrder(MiniOptions))

\* C30: the fetch hand-off is deadlock-free and leak-free.  In every
\* interleaving the collection of the snapshot runs to completion, and when
\* GenerateProcess returns every goroutine it started has sent its fetch
\* function and ended: none is still blocked on its channel.
C30_FetchHandOff ==
    /\ [](AtReturnOrOutside => (sending = {} /\ running = {}))
    /\ (pc = "generate") ~> (pc = "order" /\ Len(processes) = Cardinality(unsorted))

\* C30 witness: the collection of two processes returned with every goroutine
\* ended, the fetches for the CPU share among them.
C30_Witness ==
    /\ pc = "order"
    /\ Len(processes) = 2
    /\ "cpu" \in Range(FetchOrder(MiniOptions))
    /\ sending = {}
    /\ running = {}

====
